---- MODULE Spec2Model ----
(***************************************************************************)
(* Model of the trading bot: the position risk state machine              *)
(* (src/position_manager.py, driven by TradingBotManager.manage_positions  *)
(* of src/main.py), the indicator store (src/indicator_engine.py), the     *)
(* scorer (src/signal_generator.py) and the main loop (src/main.py).       *)
(*                                                                         *)
(* Conventions                                                             *)
(*  - The manager is modelled with both collaborators attached (set_api,   *)
(*    set_telegram_bot): without an api get_current_positions returns [],  *)
(*    and without a bot nothing is handed to the notification channel.     *)
(*  - Prices are whole price units.  Percentages of config.py are kept in  *)
(*    per mille, and activation_price / current_stop are kept in           *)
(*    thousandths of a price unit, so that price * (1 - 0.015) is the      *)
(*    exact integer price * 985.  The model computes in exact arithmetic;  *)
(*    the binary floating point rounding of the code is not modelled.      *)
(*  - Time is a clock in whole minutes; every datetime.now() of one        *)
(*    operation reads the same clock value.                                *)
(*  - Python dicts are functions whose DOMAIN is the set of keys.          *)
(*  - Fields the modelled operations never read (size, margin, leverage,   *)
(*    unrealized_pnl, activated_at, stop_loss_adjustment) are left out.    *)
(*  - Indicator strengths and the multipliers of config.py are kept in     *)
(*    tenths (0.7 is 7, 2.0 is 20); scores are computed as exact           *)
(*    fractions.  An Optional value is a sequence of at most one element:  *)
(*    <<>> is None.                                                        *)
(*  - The arithmetic of the indicators themselves (RSI, MACD, ...) is not  *)
(*    modelled: what an indicator returns for a data frame, or that it     *)
(*    raises, is an input.                                                 *)
(***************************************************************************)
EXTENDS Integers, Sequences, FiniteSets, TLC

\* ---------------------------------------------------------------- bounds
\* The clock stops at these minutes in the timed specifications.
StatusHorizon == 6
ProfitHorizon == 11

\* ----------------------------------------------------- program constants
\* config.py, in per mille.
TRAILING_STOP_ACTIVATION == 20
TRAILING_STOP_DISTANCE == 15
DEFAULT_TAKE_PROFIT_1 == 40
DEFAULT_TAKE_PROFIT_2 == 80
\* position_manager.py: cooldowns in minutes, thresholds in percent.
PROFIT_ALERT_COOLDOWN == 10
STATUS_UPDATE_INTERVAL == 5
TRAILING_RECENT_WINDOW == 2
MAX_LOSS_PCT == -10
RAPID_CHANGE_PCT == 5
PRICE_HISTORY_LEN == 5
PNL_THRESHOLD == 5

Symbols == {"BTCUSDT", "ETHUSDT"}
SymbolOrder == <<"BTCUSDT", "ETHUSDT">>
Sides == {"Buy", "Sell"}

VARIABLES
    monitored_positions,       \* symbol -> the last Position the exchange reported
    auto_management_settings,  \* symbol -> settings record
    trailing_stops,            \* symbol -> trailing stop state
    last_profit_alerts,        \* key -> time of the last suggestion
    price_history,             \* symbol -> sequence of observed prices
    last_updates,              \* symbol -> time of the last status push
    now,                       \* the clock, in minutes
    indicator_results,         \* symbol -> timeframe -> readings (IndicatorEngine)
    symbol_data,               \* symbol -> timeframe -> candles (DataCollector)
    last_signal_time,          \* symbol -> time of the last signal sent (main.py)
    in_flight,                 \* the management pass suspended at an await, if any
    requests,                  \* RateLimiter.requests: the recorded request times
    let_through,               \* the times at which wait() returned, last window only
    returned,                  \* what the operation performed last returned
    op,                        \* the operation performed last and what it was given
    events,                    \* what that operation handed to the notification channel
    sent_at                    \* channel -> time of the last event handed over on it

vars == <<monitored_positions, auto_management_settings, trailing_stops,
          last_profit_alerts, price_history, last_updates, now, op, events, sent_at,
          indicator_results, symbol_data, last_signal_time, returned, in_flight,
          requests, let_through>>

\* ---------------------------------------------------------------- helpers
Milli(p) == p * 1000

Abs(x) == IF x < 0 THEN -x ELSE x

\* The fraction num / den.
Frac(num, den) == [num |-> num, den |-> den]

Put(f, k, v) == [x \in DOMAIN f \cup {k} |-> IF x = k THEN v ELSE f[x]]

Del(f, k) == [x \in DOMAIN f \ {k} |-> f[x]]

Empty == [x \in {} |-> 0]

\* No earlier event on the channel.
NoGap == 0 - 1

\* Candles kept per symbol and timeframe.
DATA_LIMIT == 200

\* The manager's state as one record, threaded through the steps of an operation
\* (data_limit is config.DATA_LIMIT as the data collector reads it).
Cur ==
    [monitored_positions |-> monitored_positions,
     auto_management_settings |-> auto_management_settings,
     trailing_stops |-> trailing_stops,
     last_profit_alerts |-> last_profit_alerts,
     price_history |-> price_history,
     last_updates |-> last_updates,
     now |-> now,
     events |-> <<>>,
     sent_at |-> sent_at,
     raised |-> FALSE,
     indicator_results |-> indicator_results,
     symbol_data |-> symbol_data,
     last_signal_time |-> last_signal_time,
     returned |-> <<>>,
     in_flight |-> in_flight,
     requests |-> requests,
     let_through |-> let_through,
     data_limit |-> DATA_LIMIT,
     log |-> <<>>]

\* Hand one event to the notification channel.  For the throttled channels (a
\* non-empty channel) gap is the time since the last event on the same channel;
\* gap_update (position updates only) is the time since the last position update
\* of the symbol, whatever caused it.
NoChannel == <<>>

Emit(st, e, channel) ==
    LET upd == <<"position_update", e.symbol>>
        gapOf(c) == IF c \in DOMAIN st.sent_at THEN st.now - st.sent_at[c] ELSE NoGap
        ev == [kind |-> e.kind, symbol |-> e.symbol, detail |-> e.detail,
               gap |-> IF channel = NoChannel THEN NoGap ELSE gapOf(channel),
               gap_update |-> IF e.kind = "position_update" THEN gapOf(upd) ELSE NoGap]
        s1 == IF channel = NoChannel THEN st.sent_at ELSE Put(st.sent_at, channel, st.now)
        s2 == IF e.kind = "position_update" THEN Put(s1, upd, st.now) ELSE s1
    IN [st EXCEPT !.events = Append(@, ev), !.sent_at = s2]

\* ------------------------------------------------------- trailing stop
is_auto_managed(settings, symbol) ==
    symbol \in DOMAIN settings /\ settings[symbol].enabled

\* Faulty variant: the short side gets the long side's prices.
InitialTrailingLongOnly(position, t) ==
    [activation_price |-> position.entry_price * (1000 + TRAILING_STOP_ACTIVATION),
     current_stop |-> position.entry_price * (1000 - TRAILING_STOP_DISTANCE),
     highest_price |-> position.current_price,
     lowest_price |-> position.current_price,
     activated |-> FALSE,
     last_update |-> t]

InitialTrailing(position, t) ==
    IF position.side = "Buy"
    THEN [activation_price |-> position.entry_price * (1000 + TRAILING_STOP_ACTIVATION),
          current_stop |-> position.entry_price * (1000 - TRAILING_STOP_DISTANCE),
          highest_price |-> position.current_price,
          lowest_price |-> position.current_price,
          activated |-> FALSE,
          last_update |-> t]
    ELSE [activation_price |-> position.entry_price * (1000 - TRAILING_STOP_ACTIVATION),
          current_stop |-> position.entry_price * (1000 + TRAILING_STOP_DISTANCE),
          highest_price |-> position.current_price,
          lowest_price |-> position.current_price,
          activated |-> FALSE,
          last_update |-> t]

\* Faulty variant: a state created at a price that has reached the activation
\* price is created activated.
initialize_trailing_stop_activating(st, symbol) ==
    IF symbol \notin DOMAIN st.monitored_positions
    THEN st
    ELSE LET position == st.monitored_positions[symbol]
             trailing == InitialTrailing(position, st.now)
         IN [st EXCEPT !.trailing_stops =
                Put(@, symbol,
                    [trailing EXCEPT !.activated =
                        \/ position.side = "Buy"
                              /\ Milli(position.current_price) >= trailing.activation_price
                        \/ position.side = "Sell"
                              /\ Milli(position.current_price) <= trailing.activation_price])]

initialize_trailing_stop(st, symbol) ==
    IF symbol \notin DOMAIN st.monitored_positions
    THEN st
    ELSE [st EXCEPT !.trailing_stops =
              Put(@, symbol, InitialTrailing(st.monitored_positions[symbol], st.now))]

\* Faulty variant: the activation price itself does not activate.
ActivationReachedStrict(side, current_price, activation_price) ==
    \/ side = "Buy" /\ Milli(current_price) > activation_price
    \/ side = "Sell" /\ Milli(current_price) < activation_price

ActivationReached(side, current_price, activation_price) ==
    \/ side = "Buy" /\ Milli(current_price) >= activation_price
    \/ side = "Sell" /\ Milli(current_price) <= activation_price

NewExtreme(side, current_price, trailing) ==
    IF side = "Buy"
    THEN current_price > trailing.highest_price
    ELSE current_price < trailing.lowest_price

CandidateStop(side, current_price) ==
    IF side = "Buy"
    THEN current_price * (1000 - TRAILING_STOP_DISTANCE)
    ELSE current_price * (1000 + TRAILING_STOP_DISTANCE)

\* Faulty variant: the candidate stop of a new extreme is adopted unconditionally.
TightensAlways(side, new_stop, current_stop) == TRUE

Tightens(side, new_stop, current_stop) ==
    IF side = "Buy" THEN new_stop > current_stop ELSE new_stop < current_stop

update_trailing_stop(st, position) ==
    LET symbol == position.symbol IN
    IF symbol \notin DOMAIN st.trailing_stops
    THEN initialize_trailing_stop(st, symbol)
    ELSE
      LET trailing == st.trailing_stops[symbol]
          current_price == position.current_price
          activates == /\ ~trailing.activated
                       /\ ActivationReached(position.side, current_price,
                                            trailing.activation_price)
          t1 == [trailing EXCEPT !.activated = @ \/ activates]
          st1 == IF activates /\ position.side = "Buy"
                 THEN Emit(st, [kind |-> "warning", symbol |-> symbol,
                                detail |-> "trailing_activated"],
                           NoChannel)
                 ELSE st
          extreme == t1.activated /\ NewExtreme(position.side, current_price, t1)
          new_stop == CandidateStop(position.side, current_price)
          stop_updated == extreme /\ Tightens(position.side, new_stop, t1.current_stop)
          t2 == IF ~extreme THEN t1
                ELSE IF position.side = "Buy"
                     THEN [t1 EXCEPT !.highest_price = current_price]
                     ELSE [t1 EXCEPT !.lowest_price = current_price]
          t3 == IF stop_updated
                THEN [t2 EXCEPT !.current_stop = new_stop, !.last_update = st.now]
                ELSE t2
          st2 == [st1 EXCEPT !.trailing_stops = Put(@, symbol, t3)]
      IN IF stop_updated
         THEN Emit(st2, [kind |-> "position_update", symbol |-> symbol,
                         detail |-> "trailing"],
                   <<"trailing_update", symbol>>)
         ELSE st2

\* ------------------------------------------------------ partial profits
ProfitKey(symbol, percentage) == <<symbol, percentage>>

\* Faulty variant: the cooldown lets a suggestion through one minute early.
ProfitCooldownShort(alerts, key, t) ==
    key \in DOMAIN alerts /\ t - alerts[key] < PROFIT_ALERT_COOLDOWN - 1

ProfitCooldownActive(alerts, key, t) ==
    key \in DOMAIN alerts /\ t - alerts[key] < PROFIT_ALERT_COOLDOWN

\* send_fails: the delivery of the suggestion raises (bot.send_message is awaited
\* outside any try block of _suggest_partial_profit).
suggest_partial_profit(st, position, percentage, send_fails) ==
    LET key == ProfitKey(position.symbol, percentage) IN
    IF st.raised \/ ProfitCooldownActive(st.last_profit_alerts, key, st.now)
    THEN st
    ELSE LET st1 == [st EXCEPT !.last_profit_alerts = Put(@, key, st.now)]
             st2 == Emit(st1, [kind |-> "partial_profit", symbol |-> position.symbol,
                               detail |-> percentage],
                         <<"partial_profit", position.symbol, percentage>>)
         IN [st2 EXCEPT !.raised = send_fails]

TargetReached(side, current_price, entry_price, target) ==
    IF side = "Buy"
    THEN Milli(current_price) >= entry_price * (1000 + target)
    ELSE Milli(current_price) <= entry_price * (1000 - target)

check_partial_profits(st, position, send_fails) ==
    LET reached(target) == TargetReached(position.side, position.current_price,
                                         position.entry_price, target)
        st1 == IF reached(DEFAULT_TAKE_PROFIT_1)
               THEN suggest_partial_profit(st, position, 50, send_fails)
               ELSE st
    IN IF reached(DEFAULT_TAKE_PROFIT_2)
       THEN suggest_partial_profit(st1, position, 100, send_fails)
       ELSE st1

\* ------------------------------------------------------ risk management
\* Faulty variant: the move is measured against the current price.
RapidChangeOfCurrent(current_price, prev_price) ==
    Abs(current_price - prev_price) * 100 > RAPID_CHANGE_PCT * current_price

RapidChange(current_price, prev_price) ==
    Abs(current_price - prev_price) * 100 > RAPID_CHANGE_PCT * prev_price

\* Faulty variant: the oldest n samples are kept.
FirstN(s, n) == IF Len(s) > n THEN SubSeq(s, 1, n) ELSE s

LastN(s, n) == IF Len(s) > n THEN SubSeq(s, Len(s) - n + 1, Len(s)) ELSE s

\* Faulty variant: a loss of exactly 10% raises no alert.
MaxLossReachedStrict(pnl_percentage) == pnl_percentage < MAX_LOSS_PCT

MaxLossReached(pnl_percentage) == pnl_percentage <= MAX_LOSS_PCT

check_risk_management(st, position) ==
    LET symbol == position.symbol
        st1 == IF MaxLossReached(position.pnl_percentage)
               THEN Emit(st, [kind |-> "risk_alert", symbol |-> symbol,
                              detail |-> "max_loss"],
                         NoChannel)
               ELSE st
        known == symbol \in DOMAIN st.price_history
        st2 == IF known /\ RapidChange(position.current_price,
                                       st.price_history[symbol][Len(st.price_history[symbol])])
               THEN Emit(st1, [kind |-> "risk_alert", symbol |-> symbol,
                               detail |-> "rapid_change"],
                         NoChannel)
               ELSE st1
        old == IF known THEN st.price_history[symbol] ELSE <<>>
    IN [st2 EXCEPT !.price_history =
            Put(@, symbol, LastN(Append(old, position.current_price), PRICE_HISTORY_LEN))]

\* ------------------------------------------------------- status pushes
\* Faulty variant: one throttle shared by all symbols.
StatusThrottledShared(updates, symbol, t) ==
    \E k \in DOMAIN updates : t - updates[k] < STATUS_UPDATE_INTERVAL

StatusThrottled(updates, symbol, t) ==
    symbol \in DOMAIN updates /\ t - updates[symbol] < STATUS_UPDATE_INTERVAL

PnlTrigger(pnl_percentage) == Abs(pnl_percentage) >= PNL_THRESHOLD

TrailingTrigger(stops, symbol, t) ==
    symbol \in DOMAIN stops /\ t - stops[symbol].last_update < TRAILING_RECENT_WINDOW

send_position_update_if_needed(st, position) ==
    LET symbol == position.symbol IN
    IF StatusThrottled(st.last_updates, symbol, st.now)
    THEN st
    ELSE IF PnlTrigger(position.pnl_percentage)
               \/ TrailingTrigger(st.trailing_stops, symbol, st.now)
         THEN Emit([st EXCEPT !.last_updates = Put(@, symbol, st.now)],
                   [kind |-> "position_update", symbol |-> symbol, detail |-> "status"],
                   <<"status_update", symbol>>)
         ELSE st

\* ------------------------------------------------- one management pass
\* Each step runs only while no earlier step of the pass has raised; the except
\* clause of update_position_management swallows the exception.
\* Faulty variant: the exception of a step leaves the pass.
update_position_management_propagates(st, position, send_fails) ==
    LET settings == st.auto_management_settings[position.symbol]
        st1 == IF settings.trailing_stop THEN update_trailing_stop(st, position) ELSE st
        st2 == IF settings.partial_profits
               THEN check_partial_profits(st1, position, send_fails)
               ELSE st1
        st3 == IF ~st2.raised /\ settings.risk_management
               THEN check_risk_management(st2, position)
               ELSE st2
    IN IF ~st3.raised THEN send_position_update_if_needed(st3, position) ELSE st3

\* Faulty variant: the partial-profit step runs only on an activated trailing state.
update_position_management_gated(st, position, send_fails) ==
    LET symbol == position.symbol
        settings == st.auto_management_settings[symbol]
        st1 == IF settings.trailing_stop THEN update_trailing_stop(st, position) ELSE st
        st2 == IF /\ settings.partial_profits
                  /\ symbol \in DOMAIN st1.trailing_stops
                  /\ st1.trailing_stops[symbol].activated
               THEN check_partial_profits(st1, position, send_fails)
               ELSE st1
        st3 == IF ~st2.raised /\ settings.risk_management
               THEN check_risk_management(st2, position)
               ELSE st2
        st4 == IF ~st3.raised THEN send_position_update_if_needed(st3, position) ELSE st3
    IN [st4 EXCEPT !.raised = FALSE]

update_position_management(st, position, send_fails) ==
    LET settings == st.auto_management_settings[position.symbol]
        st1 == IF settings.trailing_stop THEN update_trailing_stop(st, position) ELSE st
        st2 == IF settings.partial_profits
               THEN check_partial_profits(st1, position, send_fails)
               ELSE st1
        st3 == IF ~st2.raised /\ settings.risk_management
               THEN check_risk_management(st2, position)
               ELSE st2
        st4 == IF ~st3.raised THEN send_position_update_if_needed(st3, position) ELSE st3
    IN [st4 EXCEPT !.raised = FALSE]

\* get_current_positions: every position the exchange reports replaces the
\* monitored one; nothing is removed for a symbol that is no longer reported.
get_current_positions(st, reported) ==
    [st EXCEPT !.monitored_positions =
        [s \in DOMAIN @ \cup DOMAIN reported |->
            IF s \in DOMAIN reported
            THEN reported[s]
            ELSE @[s]]]

RECURSIVE manage_from(_, _, _, _)
manage_from(st, reported, failing, i) ==
    IF i > Len(SymbolOrder) \/ st.raised THEN st
    ELSE LET s == SymbolOrder[i] IN
         IF s \in DOMAIN reported /\ is_auto_managed(st.auto_management_settings, s)
         THEN manage_from(update_position_management(st, reported[s], s \in failing),
                          reported, failing, i + 1)
         ELSE manage_from(st, reported, failing, i + 1)

\* An exception that leaves the loop is caught by manage_positions itself.
manage_positions(st, reported, failing) ==
    [manage_from(get_current_positions(st, reported), reported, failing, 1)
        EXCEPT !.raised = FALSE]

\* ----------------------------------- one management pass, await by await
\* update_position_management as the coroutine it is: it runs from one awaited
\* notification to the next, and other coroutines run while it is suspended.  Its
\* frame f holds the position, where it resumes (pc), whether it stopped at an
\* await (awaiting), and the dict its local variable trailing is bound to
\* (trailing, <<>> while unbound); linked tells whether trailing_stops still
\* stores that very dict, so that an assignment through the local variable shows
\* in trailing_stops.  disabled records that disable_auto_management ran for the
\* symbol while the pass was suspended.
Frame(position) ==
    [position |-> position, pc |-> "trailing", awaiting |-> FALSE,
     trailing |-> <<>>, linked |-> FALSE, disabled |-> FALSE]

\* Faulty variant: the dict is stored back into trailing_stops on every assignment.
assign_and_store(st, f, t) ==
    [st |-> [st EXCEPT !.trailing_stops = Put(@, f.position.symbol, t)],
     f |-> [f EXCEPT !.trailing = <<t>>]]

\* trailing[key] = value on the dict the local variable is bound to.
assign_trailing(st, f, t) ==
    [st |-> IF f.linked
            THEN [st EXCEPT !.trailing_stops = Put(@, f.position.symbol, t)]
            ELSE st,
     f |-> [f EXCEPT !.trailing = <<t>>]]

\* The step is over: the pass goes on at pc, after an await if the step handed
\* an event to the notification channel.
Proceed(st_before, r, pc) ==
    [st |-> r.st,
     f |-> [r.f EXCEPT !.pc = pc,
                       !.awaiting = Len(r.st.events) > Len(st_before.events)]]

\* _update_trailing_stop up to the activation warning.
trailing_activation(st, f) ==
    LET position == f.position
        symbol == position.symbol
    IN IF ~st.auto_management_settings[symbol].trailing_stop
       THEN Proceed(st, [st |-> st, f |-> f], "partial_1")
       ELSE IF symbol \notin DOMAIN st.trailing_stops
       THEN Proceed(st, [st |-> initialize_trailing_stop(st, symbol), f |-> f], "partial_1")
       ELSE LET trailing == st.trailing_stops[symbol]
                bound == [f EXCEPT !.trailing = <<trailing>>, !.linked = TRUE]
                activates == /\ ~trailing.activated
                             /\ ActivationReached(position.side, position.current_price,
                                                  trailing.activation_price)
                r == IF activates
                     THEN assign_trailing(st, bound, [trailing EXCEPT !.activated = TRUE])
                     ELSE [st |-> st, f |-> bound]
            IN IF activates /\ position.side = "Buy"
               THEN Proceed(st, [st |-> Emit(r.st, [kind |-> "warning", symbol |-> symbol,
                                                   detail |-> "trailing_activated"],
                                             NoChannel),
                                 f |-> r.f], "adjust")
               ELSE Proceed(st, r, "adjust")

\* _update_trailing_stop from the activation warning on.
trailing_adjust(st, f) ==
    LET position == f.position
        symbol == position.symbol
        t1 == f.trailing[1]
        extreme == t1.activated /\ NewExtreme(position.side, position.current_price, t1)
        new_stop == CandidateStop(position.side, position.current_price)
        stop_updated == extreme /\ Tightens(position.side, new_stop, t1.current_stop)
        t2 == IF ~extreme THEN t1
              ELSE IF position.side = "Buy"
                   THEN [t1 EXCEPT !.highest_price = position.current_price]
                   ELSE [t1 EXCEPT !.lowest_price = position.current_price]
        t3 == IF stop_updated
              THEN [t2 EXCEPT !.current_stop = new_stop, !.last_update = st.now]
              ELSE t2
        r == IF extreme THEN assign_trailing(st, f, t3) ELSE [st |-> st, f |-> f]
    IN IF stop_updated
       THEN Proceed(st, [st |-> Emit(r.st, [kind |-> "position_update", symbol |-> symbol,
                                           detail |-> "trailing"],
                                     <<"trailing_update", symbol>>),
                         f |-> r.f], "partial_1")
       ELSE Proceed(st, r, "partial_1")

\* One test of _check_partial_profits with its suggestion.
partial_profit_test(st, f, target, percentage, pc) ==
    LET position == f.position IN
    IF /\ st.auto_management_settings[position.symbol].partial_profits
       /\ TargetReached(position.side, position.current_price, position.entry_price,
                        target)
    THEN Proceed(st, [st |-> suggest_partial_profit(st, position, percentage, FALSE),
                      f |-> f], pc)
    ELSE Proceed(st, [st |-> st, f |-> f], pc)

\* _check_risk_management: the max-loss alert, the rapid-move alert, the history.
risk_max_loss(st, f) ==
    LET position == f.position IN
    IF /\ st.auto_management_settings[position.symbol].risk_management
       /\ MaxLossReached(position.pnl_percentage)
    THEN Proceed(st, [st |-> Emit(st, [kind |-> "risk_alert", symbol |-> position.symbol,
                                       detail |-> "max_loss"],
                                  NoChannel),
                      f |-> f], "rapid")
    ELSE Proceed(st, [st |-> st, f |-> f], "rapid")

risk_rapid_change(st, f) ==
    LET position == f.position
        symbol == position.symbol
    IN IF /\ st.auto_management_settings[symbol].risk_management
          /\ symbol \in DOMAIN st.price_history
          /\ RapidChange(position.current_price,
                         st.price_history[symbol][Len(st.price_history[symbol])])
       THEN Proceed(st, [st |-> Emit(st, [kind |-> "risk_alert", symbol |-> symbol,
                                          detail |-> "rapid_change"],
                                     NoChannel),
                         f |-> f], "history")
       ELSE Proceed(st, [st |-> st, f |-> f], "history")

risk_history(st, f) ==
    LET position == f.position
        symbol == position.symbol
        old == IF symbol \in DOMAIN st.price_history THEN st.price_history[symbol] ELSE <<>>
    IN IF st.auto_management_settings[symbol].risk_management
       THEN Proceed(st, [st |-> [st EXCEPT !.price_history =
                                    Put(@, symbol, LastN(Append(old, position.current_price),
                                                         PRICE_HISTORY_LEN))],
                         f |-> f], "status")
       ELSE Proceed(st, [st |-> st, f |-> f], "status")

\* The code at f.pc, up to its await or to the next step.
StepAt(st, f) ==
    CASE f.pc = "trailing" -> trailing_activation(st, f)
      [] f.pc = "adjust" -> trailing_adjust(st, f)
      [] f.pc = "partial_1" ->
            partial_profit_test(st, f, DEFAULT_TAKE_PROFIT_1, 50, "partial_2")
      [] f.pc = "partial_2" ->
            partial_profit_test(st, f, DEFAULT_TAKE_PROFIT_2, 100, "risk")
      [] f.pc = "risk" -> risk_max_loss(st, f)
      [] f.pc = "rapid" -> risk_rapid_change(st, f)
      [] f.pc = "history" -> risk_history(st, f)
      [] f.pc = "status" ->
            Proceed(st, [st |-> send_position_update_if_needed(st, f.position), f |-> f],
                    "done")

\* The pass runs until it awaits or returns.
RECURSIVE RunPass(_, _)
RunPass(st, f) ==
    IF f.pc = "done" THEN [st |-> st, f |-> f]
    ELSE LET r == StepAt(st, f)
         IN IF r.f.awaiting THEN r ELSE RunPass(r.st, r.f)

\* The frame is kept while the pass is suspended.
Suspend(r) ==
    [r.st EXCEPT !.in_flight = IF r.f.awaiting THEN <<r.f>> ELSE <<>>]

\* One cycle of manage_positions over the reported position, up to its first
\* await inside the pass.
begin_pass(st, position) ==
    LET st1 == get_current_positions(st, [s \in {position.symbol} |-> position]) IN
    IF is_auto_managed(st1.auto_management_settings, position.symbol)
    THEN Suspend(RunPass(st1, Frame(position)))
    ELSE st1

\* The awaited notification has been delivered.
resume_pass(st) ==
    Suspend(RunPass(st, [st.in_flight[1] EXCEPT !.awaiting = FALSE]))

\* ------------------------------------------------- operator commands
enable_auto_management(st, symbol, settings) ==
    LET st1 == [st EXCEPT !.auto_management_settings =
                    Put(@, symbol, [enabled |-> TRUE,
                                    trailing_stop |-> settings.trailing_stop,
                                    partial_profits |-> settings.partial_profits,
                                    risk_management |-> settings.risk_management])]
        st2 == IF settings.trailing_stop THEN initialize_trailing_stop(st1, symbol) ELSE st1
    IN Emit(st2, [kind |-> "warning", symbol |-> symbol, detail |-> "auto_enabled"],
            NoChannel)

\* Faulty variant: disabling forgets to delete the trailing state.
disable_keeps_trailing(st, symbol) ==
    IF symbol \notin DOMAIN st.auto_management_settings
    THEN st
    ELSE [st EXCEPT !.auto_management_settings[symbol].enabled = FALSE]

disable_auto_management(st, symbol) ==
    IF symbol \notin DOMAIN st.auto_management_settings
    THEN st
    ELSE [st EXCEPT !.auto_management_settings[symbol].enabled = FALSE,
                    !.trailing_stops = Del(@, symbol)]

emergency_close_all(st) ==
    [st EXCEPT !.auto_management_settings = Empty,
               !.trailing_stops = Empty,
               !.monitored_positions = Empty]

\* ------------------------------------------------------ indicator engine
\* The timeframes and the indicators of the model, in the order of
\* config.TIMEFRAMES and of IndicatorEngine.indicators.
Timeframes == <<"1", "15">>

Indicators == <<"RSI_14", "RSI_21">>

\* An indicator's calculate() either raises or returns a reading.
Fail == [signal |-> "RAISES", strength |-> 0]

\* Faulty variant: the first indicator that raises ends the timeframe.
ReadingsUntilFailure(timeframe, outcome) ==
    LET bad == {i \in 1..Len(Indicators) : outcome[i] = Fail}
        n == IF bad = {} THEN Len(Indicators)
             ELSE (CHOOSE i \in bad : \A j \in bad : i <= j) - 1
    IN [k \in 1..n |-> [name |-> Indicators[k], signal |-> outcome[k].signal,
                        strength |-> outcome[k].strength, timeframe |-> timeframe]]

\* The readings of one timeframe: those of the indicators that did not raise, in
\* the order of the indicators.
Readings(timeframe, outcome) ==
    LET ok(i) == outcome[i] # Fail
        idx == SelectSeq([i \in 1..Len(Indicators) |-> i], ok)
    IN [k \in 1..Len(idx) |->
            [name |-> Indicators[idx[k]], signal |-> outcome[idx[k]].signal,
             strength |-> outcome[idx[k]].strength, timeframe |-> timeframe]]

\* market_data: timeframe -> candles; outcome: timeframe -> what each indicator
\* does on that timeframe's frame.  An empty frame is skipped.
calculate_all_indicators(market_data, outcome) ==
    [tf \in {t \in DOMAIN market_data : market_data[t] # <<>>}
        |-> Readings(tf, outcome[tf])]

\* Faulty variant: the new result set is merged into the stored one.
update_indicators_merging(st, symbol, results) ==
    LET old == IF symbol \in DOMAIN st.indicator_results
               THEN st.indicator_results[symbol] ELSE Empty
    IN [st EXCEPT !.indicator_results =
            Put(@, symbol, [tf \in DOMAIN old \cup DOMAIN results |->
                                IF tf \in DOMAIN results THEN results[tf] ELSE old[tf]])]

update_indicators(st, symbol, results) ==
    [st EXCEPT !.indicator_results = Put(@, symbol, results)]

RECURSIVE Concat(_, _, _)
Concat(results, order, i) ==
    IF i > Len(order) THEN <<>>
    ELSE (IF order[i] \in DOMAIN results THEN results[order[i]] ELSE <<>>)
            \o Concat(results, order, i + 1)

\* get_indicators(symbol, timeframe): None, or the readings of the timeframe.
get_indicators(results, symbol, timeframe) ==
    IF symbol \notin DOMAIN results THEN <<>>
    ELSE IF timeframe \in DOMAIN results[symbol]
         THEN <<results[symbol][timeframe]>>
         ELSE <<>>

\* get_indicators(symbol): None, or the readings of all timeframes combined.
get_all_indicators(results, symbol) ==
    IF symbol \notin DOMAIN results THEN <<>>
    ELSE <<Concat(results[symbol], Timeframes, 1)>>

\* config.BTC_DOMINANCE_WEIGHTS, in tenths.
BTC_DOMINANCE_WEIGHTS ==
    [STRONG_BULL |-> 20, BULL |-> 15, SIDEWAYS |-> 10, BEAR |-> 7, STRONG_BEAR |-> 3]

RECURSIVE TotalStrength(_, _)
TotalStrength(readings, i) ==
    IF i > Len(readings) THEN 0
    ELSE (CASE readings[i].signal = "BUY" -> readings[i].strength
            [] readings[i].signal = "SELL" -> 0 - readings[i].strength
            [] OTHER -> 0)
         + TotalStrength(readings, i + 1)

\* Faulty variant: an average of exactly 0.6 already counts as a strong trend.
RegimeInclusive(total_strength, count) ==
    IF total_strength >= 6 * count THEN BTC_DOMINANCE_WEIGHTS.STRONG_BULL
    ELSE IF total_strength > 3 * count THEN BTC_DOMINANCE_WEIGHTS.BULL
    ELSE IF total_strength <= 0 - 6 * count THEN BTC_DOMINANCE_WEIGHTS.STRONG_BEAR
    ELSE IF total_strength < 0 - 3 * count THEN BTC_DOMINANCE_WEIGHTS.BEAR
    ELSE BTC_DOMINANCE_WEIGHTS.SIDEWAYS

\* avg_strength = total_strength / count against 0.6 and 0.3, in tenths.
Regime(total_strength, count) ==
    IF total_strength > 6 * count THEN BTC_DOMINANCE_WEIGHTS.STRONG_BULL
    ELSE IF total_strength > 3 * count THEN BTC_DOMINANCE_WEIGHTS.BULL
    ELSE IF total_strength < 0 - 6 * count THEN BTC_DOMINANCE_WEIGHTS.STRONG_BEAR
    ELSE IF total_strength < 0 - 3 * count THEN BTC_DOMINANCE_WEIGHTS.BEAR
    ELSE BTC_DOMINANCE_WEIGHTS.SIDEWAYS

calculate_btc_dominance_factor(results) ==
    LET btc_indicators == get_indicators(results, "BTCUSDT", "15") IN
    IF btc_indicators = <<>> \/ btc_indicators[1] = <<>>
    THEN 10
    ELSE Regime(TotalStrength(btc_indicators[1], 1), Len(btc_indicators[1]))

\* ----------------------------------------------------- signal generator
MIN_SIGNAL_SCORE == 70

TOTAL_CAPITAL == 3000

\* In percent.
MAX_POSITION_RATIO == 20

DEFAULT_LEVERAGE == 10

MAX_LEVERAGE == 20

MIN_LEVERAGE == 5

\* Ratios in tenths, distances in per-mille.
SPLIT_ENTRY_RATIOS == <<3, 3, 4>>

SPLIT_ENTRY_DISTANCES == <<5, 10, 25>>

\* _determine_direction: min_diff = 1.0, in tenths.
MIN_DIRECTION_DIFF == 10

\* timeframe_weights of _calculate_base_score, in hundredths.
TimeframeWeight(timeframe) ==
    CASE timeframe = "1" -> 15
      [] timeframe = "3" -> 15
      [] timeframe = "5" -> 20
      [] timeframe = "15" -> 25
      [] timeframe = "30" -> 15
      [] timeframe = "60" -> 10
      [] OTHER -> 10

RECURSIVE WeightedStrength(_, _, _)
WeightedStrength(indicators, signal, i) ==
    IF i > Len(indicators) THEN 0
    ELSE (IF indicators[i].signal = signal
          THEN indicators[i].strength * TimeframeWeight(indicators[i].timeframe)
          ELSE 0)
         + WeightedStrength(indicators, signal, i + 1)

RECURSIVE TotalWeight(_, _)
TotalWeight(indicators, i) ==
    IF i > Len(indicators) THEN 0
    ELSE TimeframeWeight(indicators[i].timeframe) + TotalWeight(indicators, i + 1)

Max(a, b) == IF a >= b THEN a ELSE b

Min(a, b) == IF a <= b THEN a ELSE b

\* The base score as the fraction num / den: strength * weight * 100 summed per
\* direction, divided by the total weight; the larger of the two directions.
calculate_base_score(indicators) ==
    IF indicators = <<>> THEN [num |-> 0, den |-> 1]
    ELSE [num |-> 10 * Max(WeightedStrength(indicators, "BUY", 1),
                           WeightedStrength(indicators, "SELL", 1)),
          den |-> TotalWeight(indicators, 1)]

RECURSIVE DirectionStrength(_, _, _)
DirectionStrength(indicators, signal, i) ==
    IF i > Len(indicators) THEN 0
    ELSE (IF indicators[i].signal = signal THEN indicators[i].strength ELSE 0)
         + DirectionStrength(indicators, signal, i + 1)

\* Faulty variant: any difference picks a direction.
determine_direction_no_floor(indicators) ==
    LET buy_strength == DirectionStrength(indicators, "BUY", 1)
        sell_strength == DirectionStrength(indicators, "SELL", 1)
    IN IF buy_strength - sell_strength > 0 THEN <<"LONG">>
       ELSE IF sell_strength - buy_strength > 0 THEN <<"SHORT">>
       ELSE <<>>

determine_direction(indicators) ==
    LET buy_strength == DirectionStrength(indicators, "BUY", 1)
        sell_strength == DirectionStrength(indicators, "SELL", 1)
    IN IF buy_strength - sell_strength > MIN_DIRECTION_DIFF THEN <<"LONG">>
       ELSE IF sell_strength - buy_strength > MIN_DIRECTION_DIFF THEN <<"SHORT">>
       ELSE <<>>

\* What the pattern recognizer finds on the 5 minute frame is an input.  The bonus
\* is in tenths of a point: strength * 15 for a breakout, strength * 10 for a
\* reversal.
NoPattern == [kind |-> "none", strength |-> 0]

analyze_patterns(market_data, pattern) ==
    IF "5" \notin DOMAIN market_data \/ market_data["5"] = <<>> THEN 0
    ELSE CASE pattern.kind = "breakout" -> pattern.strength * 15
           [] pattern.kind = "reversal" -> pattern.strength * 10
           [] OTHER -> 0

\* _get_btc_correlation_factor returns the constant 1.0, in tenths.
get_btc_correlation_factor == 10

\* Faulty variant: the score is not limited to 100.
final_score_unclamped(base_score, pattern_bonus, btc_factor) ==
    ((base_score.num * 10 + pattern_bonus * base_score.den) * btc_factor)
        \div (100 * base_score.den)

\* int((base_score + pattern_bonus) * btc_factor), limited to 0..100.
final_score(base_score, pattern_bonus, btc_factor) ==
    Max(0, Min(100, ((base_score.num * 10 + pattern_bonus * base_score.den) * btc_factor)
                        \div (100 * base_score.den)))

\* The close of the last 1 minute candle, 0 without market data.
current_price_of(market_data) ==
    IF "1" \in DOMAIN market_data /\ market_data["1"] # <<>>
    THEN market_data["1"][Len(market_data["1"])].close
    ELSE 0

\* A price of a candle counts millionths of the quote currency.  Stops and
\* targets are kept as multiples of the entry price: Scaled(price) is the price
\* itself on that scale.  Volatility is in per-mille.
Scaled(price) == price * 10000

RECURSIVE Gcd(_, _)
Gcd(a, b) == IF b = 0 THEN a ELSE Gcd(b, a % b)

\* The fraction num / den in lowest terms, den > 0.
Reduce(num, den) ==
    LET g == Gcd(Abs(num), den) IN [num |-> num \div g, den |-> den \div g]

FracLe(x, y) == x.num * y.den <= y.num * x.den

FracMin(x, y) == IF FracLe(x, y) THEN x ELSE y

\* _calculate_volatility: atr_ratio is the ATR(14) of the 15 minute frame over its
\* last close, computed by pandas; 2% without a 15 minute frame of 14 rows.
VOLATILITY_DEFAULT == 20

VOLATILITY_ROWS == 14

calculate_volatility(market_data, atr_ratio) ==
    IF "15" \notin DOMAIN market_data THEN VOLATILITY_DEFAULT
    ELSE IF Len(market_data["15"]) < VOLATILITY_ROWS THEN VOLATILITY_DEFAULT
    ELSE IF market_data["15"][Len(market_data["15"])].close > 0 THEN atr_ratio
    ELSE VOLATILITY_DEFAULT

\* round(x, 4) of x = num / den millionths: the nearest multiple of 100
\* millionths, a tie going to the even multiple.
Round4(num, den) ==
    LET unit == 100 * den
        q == num \div unit
        r == num % unit
    IN IF 2 * r > unit \/ (2 * r = unit /\ q % 2 = 1) THEN 100 * (q + 1) ELSE 100 * q

\* _calculate_entry_zones: ratios in tenths, distances in per-mille.
calculate_entry_zones(current_price, direction) ==
    [i \in 1..Len(SPLIT_ENTRY_RATIOS) |->
        [order |-> i,
         price |-> IF direction = "LONG"
                   THEN Round4(current_price * (1000 - SPLIT_ENTRY_DISTANCES[i]), 1000)
                   ELSE Round4(current_price * (1000 + SPLIT_ENTRY_DISTANCES[i]), 1000),
         ratio |-> SPLIT_ENTRY_RATIOS[i],
         amount |-> (TOTAL_CAPITAL * MAX_POSITION_RATIO * SPLIT_ENTRY_RATIOS[i]) \div 1000]]

\* Faulty variant: the stop distance has no 2% floor.
stop_distance_no_floor(volatility) == Min(800, 25 * volatility)

\* max(0.02, min(0.08, volatility * 2.5)), in hundredths of a percent.
stop_distance(volatility) == Max(200, Min(800, 25 * volatility))

calculate_stop_loss(entry_price, direction, volatility) ==
    IF direction = "LONG"
    THEN entry_price * (10000 - stop_distance(volatility))
    ELSE entry_price * (10000 + stop_distance(volatility))

calculate_take_profits(entry_price, direction, volatility) ==
    IF direction = "LONG"
    THEN <<entry_price * (10000 + 20 * volatility), entry_price * (10000 + 40 * volatility)>>
    ELSE <<entry_price * (10000 - 20 * volatility), entry_price * (10000 - 40 * volatility)>>

\* Faulty variant: the value is the one the stop distance allows.
calculate_position_size_by_stop(signal_score, account_balance, entry_price, stop_loss) ==
    IF entry_price = 0 \/ Scaled(entry_price) = stop_loss THEN <<>>
    ELSE LET risk_distance == Reduce(Abs(Scaled(entry_price) - stop_loss),
                                     Scaled(entry_price))
         IN <<[position_value |-> Reduce(2 * account_balance * risk_distance.den,
                                         100 * risk_distance.num)]>>

\* calculate_position_size: None stands for the ZeroDivisionError of a division
\* by an entry price of 0 or by a risk distance of 0.  MAX_POSITION_RATIO in
\* percent, max_loss = 2% of the balance.
calculate_position_size(signal_score, account_balance, entry_price, stop_loss) ==
    IF entry_price = 0 \/ Scaled(entry_price) = stop_loss THEN <<>>
    ELSE LET risk_distance == Reduce(Abs(Scaled(entry_price) - stop_loss),
                                     Scaled(entry_price))
         IN <<[position_value |->
                  FracMin(Reduce(account_balance * MAX_POSITION_RATIO * signal_score,
                                 10000),
                          Reduce(2 * account_balance * risk_distance.den,
                                 100 * risk_distance.num))]>>

\* max(0.5, 1 - (volatility - 0.02) / 0.06) = max(1/2, (80 - volatility) / 60).
volatility_factor(volatility) ==
    IF 2 * (80 - volatility) >= 60 THEN Frac(80 - volatility, 60) ELSE Frac(1, 2)

calculate_optimal_leverage(score, volatility) ==
    LET factor == volatility_factor(volatility)
        optimal_leverage == (DEFAULT_LEVERAGE * score * factor.num) \div (100 * factor.den)
    IN Max(MIN_LEVERAGE, Min(MAX_LEVERAGE, optimal_leverage))

\* _create_detailed_signal: None stands for the exception calculate_position_size
\* raises, which generate_signal catches; confidence is score / 100, kept in
\* hundredths.
create_detailed_signal(symbol, direction, score, market_data, atr_ratio) ==
    LET current_price == current_price_of(market_data)
        volatility == calculate_volatility(market_data, atr_ratio)
        stop_loss == calculate_stop_loss(current_price, direction, volatility)
        position_info == calculate_position_size(score, TOTAL_CAPITAL, current_price,
                                                 stop_loss)
    IN IF position_info = <<>> THEN <<>>
       ELSE <<[symbol |-> symbol, direction |-> direction, score |-> score,
               confidence |-> score, entry_price |-> current_price,
               entry_zones |-> calculate_entry_zones(current_price, direction),
               stop_loss |-> stop_loss,
               take_profits |-> calculate_take_profits(current_price, direction,
                                                       volatility),
               recommended_size |-> position_info[1].position_value,
               leverage |-> calculate_optimal_leverage(score, volatility)]>>

\* indicators and market_data are Optional; without market data the argument is
\* None and is read as the empty dict.
generate_signal(symbol, indicators, market_data, pattern, atr_ratio) ==
    IF indicators = <<>> \/ indicators[1] = <<>> THEN <<>>
    ELSE LET data == IF market_data = <<>> THEN Empty ELSE market_data[1]
             base_score == calculate_base_score(indicators[1])
             pattern_bonus == IF DOMAIN data # {} THEN analyze_patterns(data, pattern) ELSE 0
             btc_factor == IF symbol # "BTCUSDT" THEN get_btc_correlation_factor ELSE 10
             score == final_score(base_score, pattern_bonus, btc_factor)
             direction == determine_direction(indicators[1])
         IN IF score < MIN_SIGNAL_SCORE THEN <<>>
            ELSE IF direction = <<>> THEN <<>>
            ELSE create_detailed_signal(symbol, direction[1], score, data, atr_ratio)

\* ----------------------------------------------------- indicator library
\* The signal rules of the five indicators.  What talib and pandas compute from
\* the frame (the oscillator value, the bands, the averages) is an input; a
\* number that may be NaN is a sequence of at most one integer, and every
\* comparison with NaN is false.  A strength is the fraction num / den.
NaN == <<>>

Num(x) == <<x>>

Gt(a, b) == a # NaN /\ b # NaN /\ a[1] > b[1]

Lt(a, b) == Gt(b, a)

Ge(a, b) == a # NaN /\ b # NaN /\ a[1] >= b[1]

Le(a, b) == Ge(b, a)

\* Faulty variant: the strength is not limited to 1.0.
Uncapped(num, den) == Frac(num, den)

\* min(1.0, num / den), den > 0.
Capped(num, den) == Frac(Min(num, den), den)

IndicatorReading(signal, strength) == [signal |-> signal, strength |-> strength]

\* The reading of every indicator on a frame with fewer rows than it needs.
InsufficientData == IndicatorReading("NEUTRAL", Frac(0, 10))

\* RSIIndicator.calculate; current_rsi in tenths of a point.
RSI(rows, period, current_rsi) ==
    IF rows < period THEN InsufficientData
    ELSE IF Le(current_rsi, Num(300))
         THEN IndicatorReading("BUY", Capped(300 - current_rsi[1], 100))
    ELSE IF Ge(current_rsi, Num(700))
         THEN IndicatorReading("SELL", Capped(current_rsi[1] - 700, 100))
    ELSE IndicatorReading("NEUTRAL", Frac(1, 10))

\* MACDIndicator.calculate; the histogram is macd - signal.
MACD_MIN_PERIODS == 36

MACD(rows, current_macd, current_signal, prev_histogram) ==
    LET current_histogram == IF current_macd = NaN \/ current_signal = NaN THEN NaN
                             ELSE Num(current_macd[1] - current_signal[1])
        zero == Num(0)
    IN IF rows < MACD_MIN_PERIODS THEN InsufficientData
       ELSE IF Gt(current_macd, current_signal) /\ Le(prev_histogram, zero)
                /\ Lt(zero, current_histogram)
            THEN IndicatorReading("BUY", Frac(8, 10))
       ELSE IF Lt(current_macd, current_signal) /\ Ge(prev_histogram, zero)
                /\ Gt(zero, current_histogram)
            THEN IndicatorReading("SELL", Frac(8, 10))
       ELSE IF Gt(current_histogram, zero) /\ Gt(current_histogram, prev_histogram)
            THEN IndicatorReading("BUY", Frac(5, 10))
       ELSE IF Lt(current_histogram, zero) /\ Lt(current_histogram, prev_histogram)
            THEN IndicatorReading("SELL", Frac(5, 10))
       ELSE IndicatorReading("NEUTRAL", Frac(1, 10))

\* BollingerBandsIndicator.calculate; bb_position = (price - lower) / (upper -
\* lower) * 100 is compared and scaled without dividing.  Bands of width 0 give
\* NaN (price on the band) or an infinite position.
BB(rows, period, current_price, current_upper, current_lower) ==
    LET width == current_upper - current_lower
        above == current_price - current_lower
    IN IF rows < period THEN InsufficientData
       ELSE IF width = 0
            THEN IF above = 0 THEN IndicatorReading("NEUTRAL", Frac(1, 10))
                 ELSE IF above < 0 THEN IndicatorReading("BUY", Frac(1, 1))
                 ELSE IndicatorReading("SELL", Frac(1, 1))
       ELSE IF 100 * above <= 10 * width
            THEN IndicatorReading("BUY", Capped(10 * width - 100 * above, 10 * width))
       ELSE IF 100 * above >= 90 * width
            THEN IndicatorReading("SELL", Capped(100 * above - 90 * width, 10 * width))
       ELSE IndicatorReading("NEUTRAL", Frac(1, 10))

\* VolumeIndicator.calculate; volume_ratio = current_volume / (window_volume /
\* period), price_change = (close - prev_close) / prev_close, prev_close > 0.  A
\* window without volume gives the ratio NaN.
Volume(rows, period, current_volume, window_volume, close, prev_close) ==
    LET surge == period * current_volume > 2 * window_volume
        strength == Capped(period * current_volume, 3 * window_volume)
    IN IF rows < period THEN InsufficientData
       ELSE IF window_volume = 0 THEN IndicatorReading("NEUTRAL", Frac(1, 10))
       ELSE IF surge /\ 100 * (close - prev_close) > prev_close
            THEN IndicatorReading("BUY", strength)
       ELSE IF surge /\ 100 * (close - prev_close) < 0 - prev_close
            THEN IndicatorReading("SELL", strength)
       ELSE IF 2 * period * current_volume < window_volume
            THEN IndicatorReading("NEUTRAL", Frac(2, 10))
       ELSE IndicatorReading("NEUTRAL", Frac(1, 10))

\* MovingAverageIndicator.calculate; price_vs_ma = (price - ma) / ma * 100 and
\* ma_slope = (ma - prev_ma) / prev_ma * 100, the averages positive.
MovingAverage(rows, period, current_price, current_ma, prev_ma) ==
    LET strength == Capped(50 * Abs(current_price - current_ma) * prev_ma
                              + 100 * Abs(current_ma - prev_ma) * current_ma,
                           current_ma * prev_ma)
    IN IF rows < period THEN InsufficientData
       ELSE IF current_price > current_ma /\ 1000 * (current_ma - prev_ma) > prev_ma
            THEN IndicatorReading("BUY", strength)
       ELSE IF current_price < current_ma /\ 1000 * (current_ma - prev_ma) < 0 - prev_ma
            THEN IndicatorReading("SELL", strength)
       ELSE IndicatorReading("NEUTRAL", Frac(1, 10))

\* -------------------------------------------------------- data collector

RECURSIVE SortByTimestamp(_)
SortByTimestamp(rows) ==
    IF rows = <<>> THEN <<>>
    ELSE LET first == CHOOSE i \in 1..Len(rows) :
                        \A j \in 1..Len(rows) :
                            \/ rows[i].timestamp < rows[j].timestamp
                            \/ rows[i].timestamp = rows[j].timestamp /\ i <= j
             rest == [k \in 1..(Len(rows) - 1) |-> IF k < first THEN rows[k] ELSE rows[k + 1]]
         IN <<rows[first]>> \o SortByTimestamp(rest)

\* The rows of the fetched candles, sorted by timestamp.
convert_to_dataframe(kline_data) == SortByTimestamp(kline_data)

\* Faulty variant: of two candles with one timestamp the cached one is kept.
DropDuplicatesKeepFirst(rows) ==
    LET first(i) == \A j \in 1..(i - 1) : rows[j].timestamp # rows[i].timestamp
    IN [k \in 1..Len(SelectSeq([i \in 1..Len(rows) |-> i], first))
            |-> rows[SelectSeq([i \in 1..Len(rows) |-> i], first)[k]]]

\* drop_duplicates(subset = timestamp, keep = last).
DropDuplicates(rows) ==
    LET last(i) == \A j \in (i + 1)..Len(rows) : rows[j].timestamp # rows[i].timestamp
    IN [k \in 1..Len(SelectSeq([i \in 1..Len(rows) |-> i], last))
            |-> rows[SelectSeq([i \in 1..Len(rows) |-> i], last)[k]]]

\* The merge of update_symbol_data for one timeframe; limit is config.DATA_LIMIT.
MergeFrame(data, symbol, timeframe, new_df, limit) ==
    IF symbol \in DOMAIN data /\ timeframe \in DOMAIN data[symbol]
    THEN LastN(SortByTimestamp(DropDuplicates(data[symbol][timeframe] \o new_df)), limit)
    ELSE new_df

\* fetch: timeframe -> what get_kline_data does for it, the candles or an
\* exception.  A timeframe merged before the exception stays merged.
RECURSIVE update_timeframes(_, _, _, _)
update_timeframes(st, symbol, fetch, i) ==
    IF i > Len(Timeframes) THEN st
    ELSE LET timeframe == Timeframes[i] IN
         IF fetch[timeframe].raises THEN [st EXCEPT !.raised = TRUE]
         ELSE LET new_df == convert_to_dataframe(fetch[timeframe].kline)
                  merged == MergeFrame(st.symbol_data, symbol, timeframe, new_df,
                                      st.data_limit)
                  old == IF symbol \in DOMAIN st.symbol_data
                         THEN st.symbol_data[symbol] ELSE Empty
              IN update_timeframes(
                    [st EXCEPT !.symbol_data = Put(@, symbol, Put(old, timeframe, merged))],
                    symbol, fetch, i + 1)

\* update_symbol_data logs the exception and raises it again.  (ticker_data and
\* the collector's last_update are not read by the modelled operations.)
update_symbol_data(st, symbol, fetch) ==
    LET st1 == update_timeframes(st, symbol, fetch, 1)
    IN IF st1.raised THEN st1
       ELSE [st1 EXCEPT !.log = Append(@, <<"refresh", symbol>>)]

\* get_symbol_data(symbol): the 1 minute frame, or None.
get_symbol_data(data, symbol) ==
    IF symbol \notin DOMAIN data THEN <<>>
    ELSE IF "1" \in DOMAIN data[symbol] THEN <<data[symbol]["1"]>> ELSE <<>>

\* ------------------------------------------------------------ main loop
MIN_SIGNAL_INTERVAL == 15

RECURSIVE update_market_data(_, _, _)
update_market_data(st, fetch, i) ==
    IF i > Len(SymbolOrder) \/ st.raised THEN st
    ELSE update_market_data(update_symbol_data(st, SymbolOrder[i], fetch[SymbolOrder[i]]),
                            fetch, i + 1)

\* calculate_indicators: "if market_data:" takes the truth value of a DataFrame,
\* which raises ValueError for every DataFrame, so the aggregation below it is
\* reached for no symbol; a symbol without a 1 minute frame is skipped.
RECURSIVE calculate_indicators(_, _)
calculate_indicators(st, i) ==
    IF i > Len(SymbolOrder) \/ st.raised THEN st
    ELSE IF get_symbol_data(st.symbol_data, SymbolOrder[i]) = <<>>
         THEN calculate_indicators([st EXCEPT !.log = Append(@, <<"indicators", SymbolOrder[i]>>)],
                                   i + 1)
         ELSE [st EXCEPT !.raised = TRUE]

\* Faulty variant: one symbol's interval holds back every symbol.
should_skip_signal_shared(st, symbol) ==
    \E other \in DOMAIN st.last_signal_time :
        st.now - st.last_signal_time[other] < MIN_SIGNAL_INTERVAL

should_skip_signal(st, symbol) ==
    /\ symbol \in DOMAIN st.last_signal_time
    /\ st.now - st.last_signal_time[symbol] < MIN_SIGNAL_INTERVAL

\* The loop of generate_and_send_signals, scorer[symbol] being what generate_signal
\* returns for the symbol in this cycle; send_trading_signal catches its own
\* exceptions.
RECURSIVE send_signals(_, _, _)
send_signals(st, scorer, i) ==
    IF i > Len(SymbolOrder) \/ st.raised THEN st
    ELSE LET symbol == SymbolOrder[i]
             signal == scorer[symbol]
             logged == [st EXCEPT !.log = Append(@, <<"scoring", symbol>>)]
         IN IF should_skip_signal(st, symbol)
            THEN send_signals(st, scorer, i + 1)
            ELSE IF signal # <<>> /\ signal[1].score >= MIN_SIGNAL_SCORE
                 THEN send_signals(
                        Emit([logged EXCEPT !.last_signal_time = Put(@, symbol, st.now)],
                             [kind |-> "signal", symbol |-> symbol,
                              detail |-> signal[1].direction],
                             <<"signal", symbol>>),
                        scorer, i + 1)
                 ELSE send_signals(logged, scorer, i + 1)

\* generate_signal is called with the stored readings and without market data.
generate_and_send_signals(st, i) ==
    send_signals(st,
                 [symbol \in Symbols |->
                    generate_signal(symbol,
                                    get_all_indicators(st.indicator_results, symbol),
                                    <<>>, NoPattern, VOLATILITY_DEFAULT)],
                 i)

\* The fourth phase of the iteration, reached only if no earlier phase raised.
manage_positions_phase(st, reported, failing) ==
    IF st.raised THEN st
    ELSE [manage_positions(st, reported, failing)
            EXCEPT !.log = Append(@, <<"positions", "">>)]

\* The except branch of the iteration: the exception is reported.
send_error_alert(st) ==
    IF st.raised
    THEN [Emit(st, [kind |-> "error_alert", symbol |-> "", detail |-> "main_loop"],
               NoChannel)
            EXCEPT !.raised = FALSE]
    ELSE st

\* One iteration of run_main_loop: the phases in order, each reached only if the
\* one before did not raise; an exception is reported by send_error_alert.
run_main_loop(st, fetch, reported, failing) ==
    send_error_alert(
        manage_positions_phase(
            generate_and_send_signals(
                calculate_indicators(update_market_data(st, fetch, 1), 1), 1),
            reported, failing))

\* ---------------------------------------------------------- rate limiter
\* RateLimiter (data_collector.py).  wait() holds the limiter's lock from its
\* first line to its last, its sleep included, so calls run one after the other;
\* the clock counts seconds here, and the sleep moves it on to the time at which
\* the call returns.
RATE_WINDOW == 60

Within(times, t, window) ==
    SelectSeq(times, LAMBDA req_time : t - req_time < window)

wait(st, max_requests) ==
    LET t == st.now
        kept == Within(st.requests, t, RATE_WINDOW)
        full == Len(kept) >= max_requests
        sleep_time == IF full THEN RATE_WINDOW - (t - kept[1]) ELSE 0
        sleeps == full /\ sleep_time > 0
        back == IF sleeps THEN t + sleep_time ELSE t
    IN [st EXCEPT !.requests = Append(IF sleeps THEN Tail(kept) ELSE kept, t),
                  !.now = back,
                  !.let_through = Append(Within(@, back, RATE_WINDOW), back)]

\* ------------------------------------------------------------ the system
Apply(st, o) ==
    /\ monitored_positions' = st.monitored_positions
    /\ auto_management_settings' = st.auto_management_settings
    /\ trailing_stops' = st.trailing_stops
    /\ last_profit_alerts' = st.last_profit_alerts
    /\ price_history' = st.price_history
    /\ last_updates' = st.last_updates
    /\ events' = st.events
    /\ sent_at' = st.sent_at
    /\ now' = st.now
    /\ indicator_results' = st.indicator_results
    /\ symbol_data' = st.symbol_data
    /\ last_signal_time' = st.last_signal_time
    /\ returned' = st.returned
    /\ in_flight' = st.in_flight
    /\ requests' = st.requests
    /\ let_through' = st.let_through
    /\ op' = o

\* Apply, with the phases the operation went through recorded in op.
ApplyLogged(st, o) == Apply(st, Put(o, "log", st.log))

Init ==
    /\ monitored_positions = Empty
    /\ auto_management_settings = Empty
    /\ trailing_stops = Empty
    /\ last_profit_alerts = Empty
    /\ price_history = Empty
    /\ last_updates = Empty
    /\ now = 0
    /\ op = [name |-> "init", symbols |-> {}, failing |-> {}]
    /\ events = <<>>
    /\ sent_at = Empty
    /\ indicator_results = Empty
    /\ symbol_data = Empty
    /\ last_signal_time = Empty
    /\ returned = <<>>
    /\ in_flight = <<>>
    /\ requests = <<>>
    /\ let_through = <<>>

\* What the exchange may report in one cycle: for each symbol of some subset, one
\* open position drawn from positions[s].
Reports(positions) ==
    UNION {[S -> UNION {positions[s] : s \in S}] : S \in SUBSET Symbols}

WellFormed(reported) == \A s \in DOMAIN reported : reported[s].symbol = s

PositionsOf(s, sides, entries, prices, pnls) ==
    [symbol : {s}, side : sides, entry_price : entries, current_price : prices,
     pnl_percentage : pnls]

\* One cycle of manage_positions (main.py) over what the exchange reports.
Manage(positions, failures) ==
    \E reported \in Reports(positions), failing \in failures :
        /\ WellFormed(reported)
        /\ Apply(manage_positions(Cur, reported, failing),
                 [name |-> "manage", symbols |-> DOMAIN reported, failing |-> failing])

Enable(symbols, flags) ==
    \E symbol \in symbols, settings \in flags :
        Apply(enable_auto_management(Cur, symbol, settings),
              [name |-> "enable", symbols |-> {symbol}, failing |-> {}])

Disable(symbols) ==
    \E symbol \in symbols :
        Apply(disable_auto_management(Cur, symbol),
              [name |-> "disable", symbols |-> {symbol}, failing |-> {}])

EmergencyCloseAll ==
    Apply(emergency_close_all(Cur), [name |-> "emergency_close_all", symbols |-> {}, failing |-> {}])

\* A minute passes (the loop sleeps between cycles), up to the horizon.
Tick(horizon) ==
    /\ now < horizon
    /\ Apply([Cur EXCEPT !.now = now + 1],
             [name |-> "tick", symbols |-> {}, failing |-> {}])

\* The market data one symbol may come with: any subset of the timeframes, each
\* with a frame of frames; and what the indicators do on the non-empty frames.
MarketData(frames) ==
    UNION {[T -> frames] : T \in SUBSET {Timeframes[i] : i \in 1..Len(Timeframes)}}

RECURSIVE OutcomesFor(_, _)
OutcomesFor(T, choices) ==
    IF T = {} THEN {Empty}
    ELSE LET t == CHOOSE t \in T : TRUE
         IN {Put(o, t, v) : o \in OutcomesFor(T \ {t}, choices),
                            v \in [1..Len(Indicators) -> choices[t]]}

OutcomesOn(market_data, choices) ==
    OutcomesFor({t \in DOMAIN market_data : market_data[t] # <<>>}, choices)

\* calculate_all_indicators on a symbol's market data, stored by update_indicators.
CalculateIndicators(symbols, frames, choices) ==
    \E symbol \in symbols, market_data \in MarketData(frames) :
        \E outcome \in OutcomesOn(market_data, choices[symbol]) :
            LET results == calculate_all_indicators(market_data, outcome)
                before == IF symbol \in DOMAIN indicator_results
                          THEN DOMAIN indicator_results[symbol] ELSE {}
            IN Apply([update_indicators(Cur, symbol, results) EXCEPT !.returned = <<results>>],
                     [name |-> "calculate_indicators", symbols |-> {symbol},
                      failing |-> {}, market_data |-> market_data,
                      outcome |-> outcome, before |-> before])

BtcDominanceFactor ==
    Apply([Cur EXCEPT !.returned = <<calculate_btc_dominance_factor(indicator_results)>>],
          [name |-> "calculate_btc_dominance_factor", symbols |-> {}, failing |-> {}])

\* One iteration of the main loop.  fetches: what the exchange may answer to the
\* candle requests of one symbol.
MainLoop(fetches, positions, failures) ==
    \E fetch \in [Symbols -> fetches], reported \in Reports(positions), failing \in failures :
        /\ WellFormed(reported)
        /\ ApplyLogged(run_main_loop(Cur, fetch, reported, failing),
                       [name |-> "main_loop", symbols |-> DOMAIN reported,
                        failing |-> failing, fetch |-> fetch])

\* The scoring phase of a cycle on the stored readings.
GenerateAndSendSignals ==
    ApplyLogged(generate_and_send_signals(Cur, 1),
                [name |-> "scoring_phase", symbols |-> Symbols, failing |-> {}])

\* The scoring phase of a cycle, whatever generate_signal returns: signals is
\* what it may return for one symbol.
SendSignals(signals) ==
    \E scorer \in [Symbols -> signals] :
        ApplyLogged(send_signals(Cur, scorer, 1),
                    [name |-> "scoring_phase", symbols |-> Symbols, failing |-> {},
                     scorer |-> scorer])

\* One indicator of the library is calculated on a frame of rows rows, given what
\* talib and pandas compute from the frame.
CalculateRSI(rows_set, periods, values) ==
    \E rows \in rows_set, period \in periods, current_rsi \in values :
        Apply([Cur EXCEPT !.returned = <<RSI(rows, period, current_rsi)>>],
              [name |-> "RSI", symbols |-> {}, failing |-> {}, rows |-> rows,
               period |-> period, value |-> current_rsi])

CalculateMACD(rows_set, values) ==
    \E rows \in rows_set, current_macd \in values, current_signal \in values,
       prev_histogram \in values :
        Apply([Cur EXCEPT !.returned =
                    <<MACD(rows, current_macd, current_signal, prev_histogram)>>],
              [name |-> "MACD", symbols |-> {}, failing |-> {}, rows |-> rows,
               value |-> <<current_macd, current_signal, prev_histogram>>])

CalculateBB(rows_set, period, prices, bands) ==
    \E rows \in rows_set, current_price \in prices, current_upper \in bands,
       current_lower \in bands :
        /\ current_lower <= current_upper
        /\ Apply([Cur EXCEPT !.returned =
                       <<BB(rows, period, current_price, current_upper, current_lower)>>],
                 [name |-> "BB", symbols |-> {}, failing |-> {}, rows |-> rows,
                  value |-> <<current_price, current_upper, current_lower>>])

CalculateVolume(rows_set, period, volumes, closes) ==
    \E rows \in rows_set, current_volume \in volumes, window_volume \in volumes,
       close \in closes, prev_close \in closes :
        /\ current_volume <= window_volume
        /\ Apply([Cur EXCEPT !.returned =
                       <<Volume(rows, period, current_volume, window_volume,
                                close, prev_close)>>],
                 [name |-> "VOLUME", symbols |-> {}, failing |-> {}, rows |-> rows,
                  value |-> <<current_volume, window_volume, close, prev_close>>])

CalculateMovingAverage(rows_set, period, prices) ==
    \E rows \in rows_set, current_price \in prices, current_ma \in prices,
       prev_ma \in prices :
        Apply([Cur EXCEPT !.returned =
                    <<MovingAverage(rows, period, current_price, current_ma, prev_ma)>>],
              [name |-> "SMA", symbols |-> {}, failing |-> {}, rows |-> rows,
               value |-> <<current_price, current_ma, prev_ma>>])

\* generate_signal on the symbol's stored readings of all timeframes.
GenerateSignal(symbols, data, patterns, ratios) ==
    \E symbol \in symbols, market_data \in data, pattern \in patterns,
       atr_ratio \in ratios :
        Apply([Cur EXCEPT !.returned =
                    generate_signal(symbol, get_all_indicators(indicator_results, symbol),
                                    market_data, pattern, atr_ratio)],
              [name |-> "generate_signal", symbols |-> {symbol}, failing |-> {},
               market_data |-> market_data, pattern |-> pattern,
               atr_ratio |-> atr_ratio])

\* generate_signal on a list of readings handed over by the caller.
GenerateSignalOn(symbols, lists, data, patterns, ratios) ==
    \E symbol \in symbols, indicators \in lists, market_data \in data,
       pattern \in patterns, atr_ratio \in ratios :
        Apply([Cur EXCEPT !.returned =
                    generate_signal(symbol, <<indicators>>, market_data, pattern,
                                    atr_ratio)],
              [name |-> "generate_signal", symbols |-> {symbol}, failing |-> {},
               market_data |-> market_data, pattern |-> pattern,
               atr_ratio |-> atr_ratio, indicators |-> indicators])

\* The frame of a pass suspended on symbol, after a command replaced or deleted
\* the symbol's trailing dict (unlinked) and switched auto management off or on.
Interrupt(st, symbol, unlinked, disabled) ==
    IF st.in_flight # <<>> /\ st.in_flight[1].position.symbol = symbol
    THEN [st EXCEPT !.in_flight[1].linked = @ /\ ~unlinked,
                    !.in_flight[1].disabled = disabled]
    ELSE st

\* A cycle of manage_positions starts; the loop runs one cycle at a time.
BeginPass(positions) ==
    /\ in_flight = <<>>
    /\ \E position \in positions :
          Apply(begin_pass(Cur, position),
                [name |-> "pass", symbols |-> {position.symbol}, failing |-> {}])

ResumePass ==
    /\ in_flight # <<>>
    /\ Apply(resume_pass(Cur),
             [name |-> "resume", symbols |-> {in_flight[1].position.symbol},
              failing |-> {}, disabled |-> in_flight[1].disabled])

\* The commands, which may run while a pass is suspended.
EnableBeside(symbols, flags) ==
    \E symbol \in symbols, settings \in flags :
        Apply(Interrupt(enable_auto_management(Cur, symbol, settings), symbol,
                        settings.trailing_stop /\ symbol \in DOMAIN monitored_positions,
                        FALSE),
              [name |-> "enable", symbols |-> {symbol}, failing |-> {}])

DisableBeside(symbols) ==
    \E symbol \in symbols :
        Apply(Interrupt(disable_auto_management(Cur, symbol), symbol,
                        symbol \in DOMAIN auto_management_settings,
                        symbol \in DOMAIN auto_management_settings),
              [name |-> "disable", symbols |-> {symbol}, failing |-> {}])

\* A request goes through the limiter; the clock moves on by step seconds.
Wait(max_requests, horizon) ==
    /\ now < horizon
    /\ Apply(wait(Cur, max_requests),
             [name |-> "wait", symbols |-> {}, failing |-> {}, at |-> now])

Pass(step, horizon) ==
    /\ now < horizon
    /\ Apply([Cur EXCEPT !.now = now + step],
             [name |-> "tick", symbols |-> {}, failing |-> {}])

\* update_symbol_data of a collector configured with DATA_LIMIT = limit; the
\* exception it raises again is caught by the caller.  (cached: the symbol's
\* series before the call.)
UpdateSymbolData(symbols, fetches, limit) ==
    \E symbol \in symbols, fetch \in fetches :
        LET st == update_symbol_data([Cur EXCEPT !.data_limit = limit], symbol, fetch)
        IN Apply([st EXCEPT !.raised = FALSE],
                 [name |-> "update_symbol_data", symbols |-> {symbol}, failing |-> {},
                  fetch |-> fetch, raised |-> st.raised,
                  cached |-> IF symbol \in DOMAIN symbol_data
                             THEN symbol_data[symbol] ELSE Empty])

\* --------------------------------------------- Spec: the state machine
\* The trailing-stop state machine within one clock minute (no Tick): BTCUSDT
\* is reported long or short at any price of Prices, ETHUSDT short at ShortPrices
\* (below its activation price of 98).
Prices == {98, 100, 101, 102, 105}
ShortPrices == {97}
Entries == {100}

SpecPositions ==
    [s \in Symbols |->
        IF s = "BTCUSDT"
        THEN PositionsOf(s, Sides, Entries, Prices, {0})
        ELSE PositionsOf(s, {"Sell"}, Entries, ShortPrices, {0})]

SpecFlags ==
    [trailing_stop : {TRUE}, partial_profits : {FALSE}, risk_management : {FALSE}]

ManageCycle == Manage(SpecPositions, {{}})

EnableAuto == Enable(Symbols, SpecFlags)

DisableAuto == Disable(Symbols)

Next == ManageCycle \/ EnableAuto \/ DisableAuto \/ EmergencyCloseAll

Spec == Init /\ [][Next]_vars

\* ------------------------------------- SpecStatus: the status throttle
\* The clock runs.  BTCUSDT is long with trailing on, ETHUSDT is short with
\* trailing off, so that its status pushes come from the pnl trigger alone.
StatusPositions ==
    [s \in Symbols |->
        IF s = "BTCUSDT"
        THEN PositionsOf(s, {"Buy"}, Entries, {100, 102}, {0})
        ELSE PositionsOf(s, {"Sell"}, Entries, {100}, {0, 5})]

StatusManage == Manage(StatusPositions, {{}})

StatusEnableLong ==
    Enable({"BTCUSDT"},
           [trailing_stop : {TRUE}, partial_profits : {FALSE}, risk_management : {FALSE}])

StatusEnableShort ==
    Enable({"ETHUSDT"},
           [trailing_stop : {FALSE}, partial_profits : {FALSE}, risk_management : {FALSE}])

StatusTick == Tick(StatusHorizon)

StatusNext == StatusManage \/ StatusEnableLong \/ StatusEnableShort \/ StatusTick

SpecStatus == Init /\ [][StatusNext]_vars

\* ------------------------------- SpecProfit: partial-profit suggestions
\* The clock runs past the 10 minute cooldown; only partial_profits is on.
ProfitPositions ==
    [s \in Symbols |->
        IF s = "BTCUSDT"
        THEN PositionsOf(s, {"Buy"}, Entries, {100, 103, 104, 108}, {0})
        ELSE PositionsOf(s, {"Sell"}, Entries, {96}, {0})]

ProfitManage == Manage(ProfitPositions, {{}})

ProfitEnable ==
    Enable(Symbols,
           [trailing_stop : {FALSE}, partial_profits : {TRUE}, risk_management : {FALSE}])

ProfitTick == Tick(ProfitHorizon)

ProfitNext == ProfitManage \/ ProfitEnable \/ ProfitTick

SpecProfit == Init /\ [][ProfitNext]_vars

\* --------------------------------------- SpecRisk: the rapid-move alert
\* Only risk_management is on; BTCUSDT moves by exactly 5% (100 to 95) and by more
\* (95 to 100, 100 to 106), ETHUSDT stays at one price.
RiskPositions ==
    [s \in Symbols |->
        IF s = "BTCUSDT"
        THEN PositionsOf(s, {"Buy"}, Entries, {95, 100, 106}, {0})
        ELSE PositionsOf(s, {"Sell"}, Entries, {100}, {0})]

RiskManage == Manage(RiskPositions, {{}})

RiskEnable ==
    Enable(Symbols,
           [trailing_stop : {FALSE}, partial_profits : {FALSE}, risk_management : {TRUE}])

RiskNext == RiskManage \/ RiskEnable \/ DisableAuto

SpecRisk == Init /\ [][RiskNext]_vars

\* ----------------------------------------- SpecLoss: the max-loss alert
\* Only risk_management is on; BTCUSDT is reported at a loss of 9% or 10% or at
\* no loss, at two prices more than 5% apart.
LossPositions ==
    [s \in Symbols |->
        IF s = "BTCUSDT"
        THEN PositionsOf(s, {"Buy"}, Entries, {100, 106}, {0 - 10, 0 - 9, 0})
        ELSE PositionsOf(s, {"Sell"}, Entries, {100}, {0})]

LossManage == Manage(LossPositions, {{}})

LossEnable ==
    Enable(Symbols,
           [trailing_stop : {FALSE}, partial_profits : {FALSE}, risk_management : {TRUE}])

LossNext == LossManage \/ LossEnable

SpecLoss == Init /\ [][LossNext]_vars

\* ------------------------------- SpecFailure: a failing management pass
\* Within one clock minute, with the trailing and partial-profit steps on; the
\* delivery of a partial-profit suggestion raises for the symbols of the chosen set.  BTCUSDT reaches its
\* first take-profit at 104, ETHUSDT (short) its activation price at 98 and its
\* first take-profit at 96.
FailurePositions ==
    [s \in Symbols |->
        IF s = "BTCUSDT"
        THEN PositionsOf(s, {"Buy"}, Entries, {100, 104}, {0})
        ELSE PositionsOf(s, {"Sell"}, Entries, {96, 98}, {0})]

FailureSets == {{}, {"BTCUSDT"}, {"ETHUSDT"}}

FailureManage == Manage(FailurePositions, FailureSets)

FailureEnable ==
    Enable(Symbols,
           [trailing_stop : {TRUE}, partial_profits : {TRUE}, risk_management : {FALSE}])

FailureNext == FailureManage \/ FailureEnable

SpecFailure == Init /\ [][FailureNext]_vars

\* ------------------------------------ SpecIndicators: the indicator store
\* The 15 minute readings of BTCUSDT take strengths 0.6 and 1.0 in both
\* directions, so that their average meets 0.3 and 0.6 exactly and passes them;
\* indicators raise on the 15 minute frames only.
Candle == [timestamp |-> 1, close |-> 100]

Frames == {<<>>, <<Candle>>}

Reading(signal, strength) == [signal |-> signal, strength |-> strength]

IndicatorChoices ==
    [s \in Symbols |->
        IF s = "BTCUSDT"
        THEN [t \in {"1", "15"} |->
                IF t = "15"
                THEN {Fail, Reading("BUY", 6), Reading("BUY", 10), Reading("SELL", 6),
                      Reading("SELL", 10), Reading("NEUTRAL", 1)}
                ELSE {Reading("BUY", 10)}]
        ELSE [t \in {"1", "15"} |->
                IF t = "15"
                THEN {Fail, Reading("NEUTRAL", 1)}
                ELSE {Reading("NEUTRAL", 1)}]]

IndicatorsCalculate == CalculateIndicators(Symbols, Frames, IndicatorChoices)

IndicatorsNext == IndicatorsCalculate \/ BtcDominanceFactor

SpecIndicators == Init /\ [][IndicatorsNext]_vars

\* ------------------------------------------------- SpecSignal: the scorer
\* BTCUSDT's readings take strengths 0.6, 0.7 and 1.0; ETHUSDT's readings are
\* all BUY at full strength.  generate_signal is called without market data (as
\* the main loop calls it), with the 5 minute frame only, and with the 1 and 5
\* minute frames.
SignalChoices ==
    [s \in Symbols |->
        IF s = "BTCUSDT"
        THEN [t \in {"1", "15"} |->
                IF t = "15"
                THEN {Fail, Reading("BUY", 6), Reading("BUY", 7), Reading("BUY", 10),
                      Reading("SELL", 7)}
                ELSE {Reading("SELL", 6)}]
        ELSE [t \in {"1", "15"} |-> {Reading("BUY", 10)}]]

SignalMarketData ==
    {<<>>,
     <<[t \in {"5"} |-> <<Candle>>]>>,
     <<[t \in {"1", "5"} |-> <<Candle>>]>>}

Patterns ==
    {NoPattern, [kind |-> "breakout", strength |-> 6], [kind |-> "reversal", strength |-> 7]}

SignalCalculate == CalculateIndicators(Symbols, {<<Candle>>}, SignalChoices)

SignalGenerate == GenerateSignal(Symbols, SignalMarketData, Patterns, {VOLATILITY_DEFAULT})

SignalNext == SignalCalculate \/ SignalGenerate

SpecSignal == Init /\ [][SignalNext]_vars

\* --------------------------------------------------- SpecLoop: the cycle
\* The exchange answers the candle requests of a symbol with one new candle per
\* timeframe (one of two for the 1 minute frame), or the first request fails.
LoopCandles ==
    {<<[timestamp |-> 1, close |-> 100]>>, <<[timestamp |-> 2, close |-> 101]>>}

Fetched(kline) == [raises |-> FALSE, kline |-> kline]

FetchRaises == [raises |-> TRUE, kline |-> <<>>]

LoopFetches ==
    {[t \in {"1", "15"} |-> IF t = "1" THEN Fetched(k) ELSE Fetched(<<Candle>>)]
        : k \in LoopCandles}
        \cup {[t \in {"1", "15"} |-> FetchRaises]}

LoopPositions ==
    [s \in Symbols |-> PositionsOf(s, {"Buy"}, Entries, {100}, {0})]

LoopCycle == MainLoop(LoopFetches, LoopPositions, {{}})

LoopNext == LoopCycle

SpecLoop == Init /\ [][LoopNext]_vars

\* ------------------------------------------- SpecEnable: enabling again
\* BTCUSDT is reported long or short, ETHUSDT short, and the operator enables a
\* symbol with the trailing stop on or off, before or after a cycle saw it.
EnablePositions ==
    [s \in Symbols |->
        IF s = "BTCUSDT"
        THEN PositionsOf(s, Sides, Entries, {100, 103}, {0})
        ELSE PositionsOf(s, {"Sell"}, Entries, {97, 99}, {0})]

EnableFlags ==
    [trailing_stop : BOOLEAN, partial_profits : {FALSE}, risk_management : {FALSE}]

EnableManage == Manage(EnablePositions, {{}})

EnableEnable == Enable(Symbols, EnableFlags)

EnableDisable == Disable(Symbols)

EnableNext == EnableManage \/ EnableEnable \/ EnableDisable

SpecEnable == Init /\ [][EnableNext]_vars

\* ------------------------------------------ SpecRefire: signal interval
\* Scoring phases as minutes pass, generate_signal returning for each symbol
\* nothing, a signal below the minimum score or a signal at the minimum score.
RefireHorizon == 17

RefireSignals ==
    {<<>>,
     <<[direction |-> "LONG", score |-> MIN_SIGNAL_SCORE - 1]>>,
     <<[direction |-> "LONG", score |-> MIN_SIGNAL_SCORE]>>}

RefireScoring == SendSignals(RefireSignals)

RefireTick == Tick(RefireHorizon)

RefireNext == RefireScoring \/ RefireTick

SpecRefire == Init /\ [][RefireNext]_vars

\* ------------------------------------------- SpecEmit: readings to signal
\* Readings are stored for the symbols and the scoring phase runs on them.
EmitCalculate == CalculateIndicators(Symbols, {<<Candle>>}, SignalChoices)

EmitScoring == GenerateAndSendSignals

EmitNext == EmitCalculate \/ EmitScoring

SpecEmit == Init /\ [][EmitNext]_vars

\* --------------------------------------- SpecLibrary: indicator readings
\* Each indicator on frames around the number of rows it needs, with values on
\* both sides of and on every threshold of its signal rule.
RsiValues ==
    {NaN} \cup {Num(v) : v \in {0, 150, 200, 201, 250, 299, 300, 301, 500,
                                699, 700, 701, 750, 799, 800, 1000}}

MacdValues == {NaN} \cup {Num(v) : v \in {0 - 1, 0, 1}}

BandPrices == {85, 90, 91, 95, 99, 100, 105}

Bands == {90, 100}

Volumes == {0, 1, 3, 20, 25, 41}

Closes == {98, 100, 101, 102}

AveragePrices == {990, 999, 1000, 1001, 1002, 1030}

LibraryRSI == CalculateRSI({13, 14}, {14}, RsiValues)

LibraryMACD == CalculateMACD({35, 36}, MacdValues)

LibraryBB == CalculateBB({19, 20}, 20, BandPrices, Bands)

LibraryVolume == CalculateVolume({19, 20}, 20, Volumes, Closes)

LibraryMovingAverage == CalculateMovingAverage({19, 20}, 20, AveragePrices)

LibraryNext ==
    LibraryRSI \/ LibraryMACD \/ LibraryBB \/ LibraryVolume \/ LibraryMovingAverage

SpecLibrary == Init /\ [][LibraryNext]_vars

\* ------------------------------------------ SpecDetail: the signal's plan
\* Readings that give scores from 70 to 100 in both directions; market data with
\* a last 1 minute close of 0.00002, 0.031 or 0.1 and a 15 minute frame of 1 or 14
\* rows; the ATR ratio pandas computes from 0 to 25%.
DetailChoices ==
    [s \in Symbols |->
        [t \in {"1", "15"} |->
            IF s = "BTCUSDT" /\ t = "15"
            THEN {Reading("BUY", 7), Reading("BUY", 10), Reading("SELL", 7),
                  Reading("SELL", 10)}
            ELSE {Reading("SELL", 10)}]]

DetailCloses == {20, 31000, 100000}

DetailFrames == {<<Candle>>, [i \in 1..VOLATILITY_ROWS |-> Candle]}

DetailMarketData ==
    {<<[t \in {"1", "15"} |->
          IF t = "1" THEN <<[timestamp |-> 1, close |-> c]>> ELSE f]>>
        : c \in DetailCloses, f \in DetailFrames}

AtrRatios == {0, 5, 8, 20, 32, 40, 60, 250}

DetailCalculate == CalculateIndicators(Symbols, {<<Candle>>}, DetailChoices)

DetailGenerate == GenerateSignal(Symbols, DetailMarketData, {NoPattern}, AtrRatios)

DetailNext == DetailCalculate \/ DetailGenerate

SpecDetail == Init /\ [][DetailNext]_vars

\* --------------------- SpecPartial: partial profits beside the trailing stop
\* Within one clock minute, partial_profits on.  BTCUSDT (long, entry 100), its
\* trailing on or off, is seen inside both thresholds (100, 103), at the first (104)
\* and at the second (108); ETHUSDT (short, entry 100), its trailing off, at the
\* first (96).
PartialPositions ==
    [s \in Symbols |->
        IF s = "BTCUSDT"
        THEN PositionsOf(s, {"Buy"}, Entries, {100, 103, 104, 108}, {0})
        ELSE PositionsOf(s, {"Sell"}, Entries, {96}, {0})]

PartialManage == Manage(PartialPositions, {{}})

PartialEnableLong ==
    Enable({"BTCUSDT"},
           [trailing_stop : BOOLEAN, partial_profits : {TRUE}, risk_management : {FALSE}])

PartialEnableShort ==
    Enable({"ETHUSDT"},
           [trailing_stop : {FALSE}, partial_profits : {TRUE}, risk_management : {FALSE}])

PartialNext == PartialManage \/ PartialEnableLong \/ PartialEnableShort

SpecPartial == Init /\ [][PartialNext]_vars

\* ------------------------- SpecDirection: the direction beside the score
\* generate_signal on the readings of three timeframes: the indicators of the 15
\* minute frame (weight 0.25) agree on one side, those of the 60 and the 240
\* minute frames (weight 0.10 each) on the other; on each frame the indicators
\* that raised left no reading.  The 5 minute frame shows no pattern or a double
\* top (strength 0.7).
ReadingsAt(timeframe, signal, strength, n) ==
    [k \in 1..n |-> [name |-> "MACD", signal |-> signal, strength |-> strength,
                     timeframe |-> timeframe]]

Opposite(signal) == IF signal = "BUY" THEN "SELL" ELSE "BUY"

DirectionLists ==
    {ReadingsAt("15", side, s1, n1) \o ReadingsAt("60", Opposite(side), s2, n2)
        \o ReadingsAt("240", Opposite(side), 10, n3) :
        side \in {"BUY", "SELL"}, s1 \in {7, 10}, n1 \in {0, 3, 5},
        s2 \in {6, 10}, n2 \in {0, 5}, n3 \in {0, 2}}

DirectionMarketData == {<<[t \in {"1", "5"} |-> <<Candle>>]>>}

DirectionPatterns == {NoPattern, [kind |-> "reversal", strength |-> 7]}

DirectionGenerate ==
    GenerateSignalOn(Symbols, DirectionLists, DirectionMarketData, DirectionPatterns,
                     {VOLATILITY_DEFAULT})

DirectionNext == DirectionGenerate

SpecDirection == Init /\ [][DirectionNext]_vars

\* ------------------------- SpecSuspend: commands beside a suspended pass
\* Within one clock minute.  BTCUSDT, entry 100, is reported long or short at 95,
\* 100 or 105; the pass is suspended at each notification it awaits, and enable
\* and disable commands run in between.
SuspendPositions == PositionsOf("BTCUSDT", Sides, Entries, {95, 100, 105}, {0})

SuspendFlags ==
    [trailing_stop : {TRUE}, partial_profits : BOOLEAN, risk_management : {FALSE}]

SuspendBegin == BeginPass(SuspendPositions)

SuspendResume == ResumePass

SuspendEnable == EnableBeside({"BTCUSDT"}, SuspendFlags)

SuspendDisable == DisableBeside({"BTCUSDT"})

SuspendNext == SuspendBegin \/ SuspendResume \/ SuspendEnable \/ SuspendDisable

SpecSuspend == Init /\ [][SuspendNext]_vars

\* --------------------------------------- SpecLimiter: the rate limiter
\* A limiter of MaxRequests requests per minute; calls arrive at any multiple of
\* RateStep seconds, any number of them at the same instant.
MaxRequests == 2
RateStep == 20
RateHorizon == 120

LimiterWait == Wait(MaxRequests, RateHorizon)

LimiterPass == Pass(RateStep, RateHorizon)

LimiterNext == LimiterWait \/ LimiterPass

SpecLimiter == Init /\ [][LimiterNext]_vars

\* ------------------------------------------ SpecCache: the candle cache
\* A collector configured to keep CacheLimit candles updates BTCUSDT again and
\* again.  The exchange answers the "1" request with up to FetchLimit candles of
\* distinct timestamps, newest first, and the "15" request with one candle; a
\* request may also fail.
CacheLimit == 2

FetchLimit == 2

MaxStamp == 3

CacheCandles == [timestamp : 1..MaxStamp, close : {100, 101}]

CacheKlines ==
    {k \in UNION {[1..n -> CacheCandles] : n \in 0..FetchLimit} :
        \A i \in 1..Len(k), j \in 1..Len(k) : i < j => k[i].timestamp > k[j].timestamp}

CacheFetches ==
    {[t \in {"1", "15"} |-> IF t = "1" THEN Fetched(k) ELSE Fetched(<<Candle>>)]
        : k \in CacheKlines}
        \cup {[t \in {"1", "15"} |-> FetchRaises]}

CacheUpdate == UpdateSymbolData({"BTCUSDT"}, CacheFetches, CacheLimit)

CacheNext == CacheUpdate

SpecCache == Init /\ [][CacheNext]_vars

\* ------------------------------------------------------------- properties
\* The per-symbol management state of the specification's state machine.
State(settings, stops, s) ==
    IF s \in DOMAIN stops
    THEN IF stops[s].activated THEN "MANAGED_ACTIVE" ELSE "MANAGED_INACTIVE"
    ELSE IF s \in DOMAIN settings /\ ~settings[s].enabled THEN "CLOSED" ELSE "UNMANAGED"

Rank(state) ==
    CASE state = "UNMANAGED" -> 0
      [] state = "MANAGED_INACTIVE" -> 1
      [] state = "MANAGED_ACTIVE" -> 2
      [] state = "CLOSED" -> 3

\* A step that is a management pass over symbol s in which the trailing step ran
\* on an existing trailing state.
TrailingPass(s) ==
    /\ op'.name = "manage"
    /\ s \in op'.symbols
    /\ is_auto_managed(auto_management_settings, s)
    /\ auto_management_settings[s].trailing_stop
    /\ s \in DOMAIN trailing_stops

HasEvent(evs, kind, symbol, detail) ==
    \E i \in 1..Len(evs) :
        evs[i].kind = kind /\ evs[i].symbol = symbol /\ evs[i].detail = detail

\* C1: in every management pass over a symbol whose trailing state is activated,
\* current_stop does not decrease when the position is long (Buy) and does not
\* increase when it is short (Sell).
C1_StopMonotone ==
    [][\A s \in Symbols :
         (TrailingPass(s) /\ trailing_stops'[s].activated) =>
            /\ monitored_positions'[s].side = "Buy" =>
                  trailing_stops'[s].current_stop >= trailing_stops[s].current_stop
            /\ monitored_positions'[s].side = "Sell" =>
                  trailing_stops'[s].current_stop <= trailing_stops[s].current_stop]_vars

\* A pass adopted a new stop for a long position whose trailing was already active
\* before the pass (no activation warning in the same pass).
C1_Witness ==
    \E s \in Symbols :
        /\ op.name = "manage" /\ s \in op.symbols
        /\ s \in DOMAIN trailing_stops /\ trailing_stops[s].activated
        /\ monitored_positions[s].side = "Buy"
        /\ HasEvent(events, "position_update", s, "trailing")
        /\ ~HasEvent(events, "warning", s, "trailing_activated")

\* C2 (as claimed): for a long position on a trailing state initialised for a
\* long, the pass that activates trailing, and every later pass at a new high,
\* sets current_stop to price * (1 - trailing distance).
C2_StopSetOnActivation ==
    [][\A s \in Symbols :
         (/\ TrailingPass(s)
          /\ monitored_positions'[s].side = "Buy"
          /\ trailing_stops[s].activation_price
                = monitored_positions'[s].entry_price * (1000 + TRAILING_STOP_ACTIVATION)
          /\ trailing_stops'[s].activated
          /\ \/ ~trailing_stops[s].activated
             \/ monitored_positions'[s].current_price > trailing_stops[s].highest_price)
         => trailing_stops'[s].current_stop
                = monitored_positions'[s].current_price * (1000 - TRAILING_STOP_DISTANCE)]_vars

\* C3: an inactive trailing state becomes active in a pass exactly when the
\* observed price has reached the activation price in the favourable direction;
\* otherwise it stays inactive with current_stop unchanged; an active state
\* stays active in every management cycle.
C3_ActivationExact ==
    [][\A s \in Symbols :
         /\ TrailingPass(s) /\ ~trailing_stops[s].activated =>
              LET price == monitored_positions'[s].current_price * 1000
                  side == monitored_positions'[s].side
                  reached == \/ side = "Buy" /\ price >= trailing_stops[s].activation_price
                             \/ side = "Sell" /\ price <= trailing_stops[s].activation_price
              IN /\ trailing_stops'[s].activated <=> reached
                 /\ ~reached => trailing_stops'[s].current_stop
                                    = trailing_stops[s].current_stop
         /\ (/\ op'.name = "manage"
             /\ s \in DOMAIN trailing_stops
             /\ trailing_stops[s].activated)
              => s \in DOMAIN trailing_stops' /\ trailing_stops'[s].activated]_vars

\* A pass activated the short symbol, and another symbol's state is still inactive
\* after a pass that observed it.
C3_Witness ==
    /\ op.name = "manage"
    /\ op.symbols = Symbols
    /\ "ETHUSDT" \in DOMAIN trailing_stops
    /\ trailing_stops["ETHUSDT"].activated
    /\ "BTCUSDT" \in DOMAIN trailing_stops
    /\ ~trailing_stops["BTCUSDT"].activated
    /\ monitored_positions["BTCUSDT"].side = "Buy"
    /\ monitored_positions["BTCUSDT"].current_price = 101

\* C4 (as claimed): no trailing state remains for a symbol after it was disabled,
\* nor after a cycle in which the exchange no longer reports a position for it.
C4_DestroyedOnDisableOrClose ==
    /\ op.name = "disable" => op.symbols \cap DOMAIN trailing_stops = {}
    /\ op.name = "manage" => DOMAIN trailing_stops \subseteq op.symbols

ManagedPass(s) ==
    /\ op'.name = "manage"
    /\ s \in op'.symbols
    /\ is_auto_managed(auto_management_settings, s)

\* C6 (as claimed): position updates handed over for one symbol, whether caused by
\* a stop adoption or by the status step, are never less than 5 minutes apart.
C6_PositionUpdatesThrottled ==
    \A i \in 1..Len(events) :
        events[i].kind = "position_update" =>
            \/ events[i].gap_update = NoGap
            \/ events[i].gap_update >= STATUS_UPDATE_INTERVAL

\* C7: a status push for a symbol is never handed over less than 5 minutes after
\* the previous status push for that symbol, and a symbol whose own last push is
\* at least 5 minutes old (or that had none) gets its push whenever a trigger of
\* its own holds, whatever was pushed for other symbols.
C7_StatusThrottlePerSymbol ==
    [][\A s \in Symbols :
         ManagedPass(s) =>
            LET pushed == HasEvent(events', "position_update", s, "status")
                recent == /\ <<"status_update", s>> \in DOMAIN sent_at
                          /\ now' - sent_at[<<"status_update", s>>] < STATUS_UPDATE_INTERVAL
                trigger == \/ Abs(monitored_positions'[s].pnl_percentage) >= PNL_THRESHOLD
                           \/ /\ s \in DOMAIN trailing_stops'
                              /\ now' - trailing_stops'[s].last_update
                                    < TRAILING_RECENT_WINDOW
            IN /\ pushed => ~recent
               /\ (~recent /\ trigger) => pushed]_vars

\* ETHUSDT gets a second status push, at least 5 minutes after its first, in a
\* cycle that also observed BTCUSDT while BTCUSDT's own throttle was running.
C7_Witness ==
    /\ op.name = "manage"
    /\ op.symbols = Symbols
    /\ \E i \in 1..Len(events) :
          /\ events[i].kind = "position_update" /\ events[i].detail = "status"
          /\ events[i].symbol = "ETHUSDT"
          /\ events[i].gap >= STATUS_UPDATE_INTERVAL
    /\ is_auto_managed(auto_management_settings, "BTCUSDT")
    /\ <<"status_update", "BTCUSDT">> \in DOMAIN sent_at
    /\ sent_at[<<"status_update", "BTCUSDT">>] < now

\* C8 (as claimed): a status push is handed over only when the absolute pnl
\* percentage is at least 5 or a candidate stop was adopted for the symbol within
\* the last 2 minutes.
C8_StatusPushNeedsTrigger ==
    \A i \in 1..Len(events) :
        (events[i].kind = "position_update" /\ events[i].detail = "status") =>
            LET s == events[i].symbol IN
            \/ Abs(monitored_positions[s].pnl_percentage) >= PNL_THRESHOLD
            \/ /\ <<"trailing_update", s>> \in DOMAIN sent_at
               /\ now - sent_at[<<"trailing_update", s>>] < TRAILING_RECENT_WINDOW

\* C9: in a management pass with partial_profits on, the suggestion of a key
\* (symbol, percentage) is handed over exactly when the price is at or beyond the
\* key's take-profit threshold and no suggestion of that key was handed over in
\* the last 10 minutes; so two suggestions of one key are at least 10 minutes
\* apart and the first time a threshold is reached the suggestion is handed over.
C9_ProfitDedup ==
    [][\A s \in Symbols :
         (ManagedPass(s) /\ auto_management_settings[s].partial_profits) =>
            LET pos == monitored_positions'[s]
                beyond(target) ==
                    IF pos.side = "Buy"
                    THEN pos.current_price * 1000 >= pos.entry_price * (1000 + target)
                    ELSE pos.current_price * 1000 <= pos.entry_price * (1000 - target)
                recent(pct) ==
                    /\ <<"partial_profit", s, pct>> \in DOMAIN sent_at
                    /\ now' - sent_at[<<"partial_profit", s, pct>>] < PROFIT_ALERT_COOLDOWN
            IN /\ HasEvent(events', "partial_profit", s, 50)
                    <=> (beyond(DEFAULT_TAKE_PROFIT_1) /\ ~recent(50))
               /\ HasEvent(events', "partial_profit", s, 100)
                    <=> (beyond(DEFAULT_TAKE_PROFIT_2) /\ ~recent(100))]_vars

\* The 50% suggestion of BTCUSDT is handed over a second time, 10 minutes or more
\* after the first, while the price is beyond the threshold.
C9_Witness ==
    /\ op.name = "manage"
    /\ \E i \in 1..Len(events) :
          /\ events[i].kind = "partial_profit"
          /\ events[i].symbol = "BTCUSDT"
          /\ events[i].detail = 50
          /\ events[i].gap >= PROFIT_ALERT_COOLDOWN

C11_MaxLossEveryPass ==
    [][\A s \in Symbols :
         (ManagedPass(s) /\ auto_management_settings[s].risk_management) =>
            LET pos == monitored_positions'[s]
                loss == pos.pnl_percentage <= MAX_LOSS_PCT
                old == IF s \in DOMAIN price_history THEN price_history[s] ELSE <<>>
                moved == /\ old # <<>>
                         /\ Abs(pos.current_price - old[Len(old)]) * 100
                                > RAPID_CHANGE_PCT * old[Len(old)]
                throttled == /\ s \in DOMAIN last_updates
                             /\ now' - last_updates[s] < STATUS_UPDATE_INTERVAL
            IN /\ HasEvent(events', "risk_alert", s, "max_loss") <=> loss
               /\ loss =>
                    /\ HasEvent(events', "risk_alert", s, "rapid_change") <=> moved
                    /\ s \in DOMAIN price_history'
                    /\ price_history'[s][Len(price_history'[s])] = pos.current_price
                    /\ Len(price_history'[s]) = IF Len(old) < PRICE_HISTORY_LEN
                                                THEN Len(old) + 1
                                                ELSE PRICE_HISTORY_LEN
                    /\ ~throttled => HasEvent(events', "position_update", s, "status")]_vars

\* One pass over BTCUSDT at a loss of exactly 10% handed over the max-loss alert,
\* the rapid-move alert and the status push, after earlier passes had filled the
\* price history.
C11_Witness ==
    /\ op.name = "manage"
    /\ "BTCUSDT" \in op.symbols
    /\ monitored_positions["BTCUSDT"].pnl_percentage = MAX_LOSS_PCT
    /\ HasEvent(events, "risk_alert", "BTCUSDT", "max_loss")
    /\ HasEvent(events, "risk_alert", "BTCUSDT", "rapid_change")
    /\ HasEvent(events, "position_update", "BTCUSDT", "status")
    /\ "BTCUSDT" \in DOMAIN price_history
    /\ Len(price_history["BTCUSDT"]) = PRICE_HISTORY_LEN

\* What the manager holds for symbol s.
StateOf(st, s) ==
    [trailing |-> IF s \in DOMAIN st.trailing_stops THEN <<st.trailing_stops[s]>> ELSE <<>>,
     alerts |-> [k \in {k \in DOMAIN st.last_profit_alerts : k[1] = s}
                    |-> st.last_profit_alerts[k]],
     history |-> IF s \in DOMAIN st.price_history THEN st.price_history[s] ELSE <<>>,
     status |-> IF s \in DOMAIN st.last_updates THEN <<st.last_updates[s]>> ELSE <<>>]

EventsOf(evs, s) ==
    LET of(e) == e.symbol = s
        strip(e) == [kind |-> e.kind, detail |-> e.detail]
        sel == SelectSeq(evs, of)
    IN [i \in 1..Len(sel) |-> strip(sel[i])]

\* C13: when a step of one symbol's management pass raises, every other symbol
\* of the cycle is managed as in a cycle without the failure: its trailing state,
\* cooldown records, price history and the notifications handed over for it are
\* the same; and the exception does not leave the failing symbol's pass.
C13_FailureIsolated ==
    [][op'.name = "manage" =>
         LET reported == [s \in op'.symbols |-> monitored_positions'[s]]
             ref == manage_positions(Cur, reported, {})
             started == get_current_positions(Cur, reported)
         IN /\ \A s \in Symbols \ op'.failing :
                 /\ StateOf([Cur EXCEPT !.trailing_stops = trailing_stops',
                                         !.last_profit_alerts = last_profit_alerts',
                                         !.price_history = price_history',
                                         !.last_updates = last_updates'], s)
                       = StateOf(ref, s)
                 /\ EventsOf(events', s) = EventsOf(ref.events, s)
            /\ \A f \in op'.failing \cap op'.symbols :
                 is_auto_managed(auto_management_settings, f)
                    => ~update_position_management(started, reported[f], TRUE).raised]_vars

\* The delivery of BTCUSDT's suggestion raised, so its pass stopped before the
\* status step; ETHUSDT, managed after it in the same cycle, got its suggestion
\* and its status push.
C13_Witness ==
    /\ op.name = "manage"
    /\ op.failing = {"BTCUSDT"}
    /\ HasEvent(events, "partial_profit", "BTCUSDT", 50)
    /\ ~HasEvent(events, "position_update", "BTCUSDT", "status")
    /\ "BTCUSDT" \notin DOMAIN last_updates
    /\ HasEvent(events, "partial_profit", "ETHUSDT", 50)
    /\ HasEvent(events, "position_update", "ETHUSDT", "status")

\* C14: the result set of calculate_all_indicators has exactly the non-empty
\* timeframes, and in each of them exactly one reading, the one it returned, for
\* every indicator that did not raise and no reading for an indicator that raised.
C14_IndicatorFailureSkipped ==
    op.name = "calculate_indicators" =>
        LET m == op.market_data
            o == op.outcome
            res == returned[1]
        IN /\ DOMAIN res = {tf \in DOMAIN m : m[tf] # <<>>}
           /\ \A tf \in DOMAIN res : \A i \in 1..Len(Indicators) :
                 LET hits == {k \in 1..Len(res[tf]) : res[tf][k].name = Indicators[i]}
                 IN IF o[tf][i].signal = "RAISES"
                    THEN hits = {}
                    ELSE /\ Cardinality(hits) = 1
                         /\ \A k \in hits :
                               /\ res[tf][k].signal = o[tf][i].signal
                               /\ res[tf][k].strength = o[tf][i].strength
                               /\ res[tf][k].timeframe = tf

\* The first indicator raised on the 15 minute frame: the second one's reading is
\* there, and so are both readings of the 1 minute frame.
C14_Witness ==
    /\ op.name = "calculate_indicators"
    /\ DOMAIN returned[1] = {"1", "15"}
    /\ op.outcome["15"][1].signal = "RAISES"
    /\ Len(returned[1]["15"]) = 1
    /\ returned[1]["15"][1].name = Indicators[2]
    /\ Len(returned[1]["1"]) = 2

\* C15: after a symbol's result set was stored, get_indicators(symbol, tf) returns
\* the readings of the new set for every timeframe in it and None for every other
\* timeframe, and what is stored for the other symbols is unchanged.
C15_ReplacedWholesale ==
    [][op'.name = "calculate_indicators" =>
         \A s \in op'.symbols :
            LET results == returned'[1] IN
            /\ \A i \in 1..Len(Timeframes) :
                  get_indicators(indicator_results', s, Timeframes[i])
                    = IF Timeframes[i] \in DOMAIN results
                      THEN <<results[Timeframes[i]]>>
                      ELSE <<>>
            /\ \A t \in Symbols \ {s} :
                  /\ t \in DOMAIN indicator_results' <=> t \in DOMAIN indicator_results
                  /\ t \in DOMAIN indicator_results
                        => indicator_results'[t] = indicator_results[t]]_vars

\* A symbol that had readings of both timeframes got a new set with the 15 minute
\* readings only, while the other symbol has readings stored.
C15_Witness ==
    /\ op.name = "calculate_indicators"
    /\ op.before = {"1", "15"}
    /\ \E s \in op.symbols :
          /\ DOMAIN indicator_results[s] = {"15"}
          /\ \E t \in DOMAIN indicator_results \ {s} : DOMAIN indicator_results[t] # {}

RECURSIVE SumOf(_, _)
SumOf(f, S) ==
    IF S = {} THEN 0
    ELSE LET x == CHOOSE x \in S : TRUE IN f[x] + SumOf(f, S \ {x})

\* The sum of the strengths of the readings with the given signal.
StrengthSum(readings, signal) ==
    SumOf([k \in 1..Len(readings) |-> readings[k].strength],
          {k \in 1..Len(readings) : readings[k].signal = signal})

\* The regime multiplier (in tenths) that the stored 15 minute readings of the
\* reference symbol stand for.
RegimeMultiplier(results) ==
    LET stored == /\ "BTCUSDT" \in DOMAIN results
                  /\ "15" \in DOMAIN results["BTCUSDT"]
        r == IF stored THEN results["BTCUSDT"]["15"] ELSE <<>>
        n == Len(r)
        a == StrengthSum(r, "BUY") - StrengthSum(r, "SELL")
    IN IF n = 0 THEN 10
       ELSE IF a > 6 * n THEN 20
       ELSE IF 3 * n < a /\ a <= 6 * n THEN 15
       ELSE IF a < 0 - 6 * n THEN 3
       ELSE IF 0 - 6 * n <= a /\ a < 0 - 3 * n THEN 7
       ELSE 10

\* C20: with a the BUY strengths minus the SELL strengths of BTCUSDT's stored 15
\* minute readings divided by the number of those readings, the factor is the
\* strong-bull weight when a > 0.6, the bull weight when 0.3 < a <= 0.6, the
\* strong-bear weight when a < -0.6, the bear weight when -0.6 <= a < -0.3, and
\* the sideways weight 1.0 otherwise; it is 1.0 when no such readings are stored.
C20_FiveRegimes ==
    op.name = "calculate_btc_dominance_factor" =>
        returned = <<RegimeMultiplier(indicator_results)>>

\* The average strength is exactly 0.6 (two BUY readings of 0.6): the bull weight.
C20_Witness ==
    /\ op.name = "calculate_btc_dominance_factor"
    /\ returned = <<BTC_DOMINANCE_WEIGHTS.BULL>>
    /\ "BTCUSDT" \in DOMAIN indicator_results
    /\ "15" \in DOMAIN indicator_results["BTCUSDT"]
    /\ Len(indicator_results["BTCUSDT"]["15"]) = 2
    /\ \A k \in 1..2 : /\ indicator_results["BTCUSDT"]["15"][k].signal = "BUY"
                        /\ indicator_results["BTCUSDT"]["15"][k].strength = 6

\* The readings generate_signal was given: all stored readings of the symbol.
GivenReadings(results, s) ==
    IF s \notin DOMAIN results THEN <<>>
    ELSE LET r == results[s]
             one == IF "1" \in DOMAIN r THEN r["1"] ELSE <<>>
             fifteen == IF "15" \in DOMAIN r THEN r["15"] ELSE <<>>
         IN one \o fifteen

\* The weight of each reading's timeframe (in hundredths) and, per direction, the
\* weighted strength of the readings.
WeightOf(reading) ==
    IF reading.timeframe = "15" THEN 25
    ELSE IF reading.timeframe = "5" THEN 20
    ELSE IF reading.timeframe \in {"1", "3", "30"} THEN 15
    ELSE 10

Weighted(readings, signal) ==
    SumOf([k \in 1..Len(readings) |-> readings[k].strength * WeightOf(readings[k])],
          {k \in 1..Len(readings) : readings[k].signal = signal})

\* The pattern bonus (tenths of a point) of the call recorded in o.
BonusOf(o) ==
    IF o.market_data = <<>> THEN 0
    ELSE IF "5" \notin DOMAIN o.market_data[1] THEN 0
    ELSE IF o.pattern.kind = "breakout" THEN 15 * o.pattern.strength
    ELSE IF o.pattern.kind = "reversal" THEN 10 * o.pattern.strength
    ELSE 0

\* The integer part of (base score + pattern bonus) * factor, limited to 0..100,
\* for a non-empty list of readings; factor in tenths.
ScoreOf(readings, bonus, factor) ==
    LET W == SumOf([k \in 1..Len(readings) |-> WeightOf(readings[k])], 1..Len(readings))
        buy == Weighted(readings, "BUY")
        sell == Weighted(readings, "SELL")
        top == IF buy >= sell THEN buy ELSE sell
        x == ((100 * top + bonus * W) * factor) \div (100 * W)
    IN IF x > 100 THEN 100 ELSE IF x < 0 THEN 0 ELSE x

\* The readings settle a direction: the summed strengths differ by more than 1.0.
Settled(readings) ==
    Abs(StrengthSum(readings, "BUY") - StrengthSum(readings, "SELL")) > 10

\* C16 (as claimed): for readings that settle a direction, generate_signal
\* returns a signal when the final score is exactly MIN_SIGNAL_SCORE and returns
\* None when it is one point below.
C16_SignalAtThreshold ==
    op.name = "generate_signal" =>
        \A s \in op.symbols :
            LET r == GivenReadings(indicator_results, s) IN
            (r # <<>> /\ Settled(r)) =>
                /\ ScoreOf(r, BonusOf(op), 10) = MIN_SIGNAL_SCORE => returned # <<>>
                /\ ScoreOf(r, BonusOf(op), 10) = MIN_SIGNAL_SCORE - 1 => returned = <<>>

\* C17: every signal generate_signal returns has a score in 0..100 that is at
\* least MIN_SIGNAL_SCORE and is the integer part of (base score + pattern bonus)
\* * btc_factor limited to 0..100, btc_factor being the 1.0 generate_signal
\* uses; its confidence is score / 100.
C17_ScoreClamped ==
    (op.name = "generate_signal" /\ returned # <<>>) =>
        \A s \in op.symbols :
            LET r == GivenReadings(indicator_results, s) IN
            /\ returned[1].score \in 0..100
            /\ returned[1].score >= MIN_SIGNAL_SCORE
            /\ returned[1].score = ScoreOf(r, BonusOf(op), 10)
            /\ returned[1].confidence = returned[1].score

\* A signal with score 100 whose unlimited score is 109: all readings BUY at
\* full strength and a breakout bonus of 9 points.
C17_Witness ==
    /\ op.name = "generate_signal"
    /\ returned # <<>>
    /\ returned[1].score = 100
    /\ BonusOf(op) = 90
    /\ \A s \in op.symbols :
          LET r == GivenReadings(indicator_results, s)
          IN \A k \in 1..Len(r) : r[k].signal = "BUY" /\ r[k].strength = 10

\* C18: when the summed BUY strengths and the summed SELL strengths differ by
\* less than 1.0, generate_signal returns None whatever the score; a returned
\* signal is LONG only if the BUY sum exceeds the SELL sum and SHORT only if the
\* SELL sum exceeds the BUY sum.
C18_NoiseFloor ==
    op.name = "generate_signal" =>
        \A s \in op.symbols :
            LET r == GivenReadings(indicator_results, s)
                buy == StrengthSum(r, "BUY")
                sell == StrengthSum(r, "SELL")
            IN /\ Abs(buy - sell) < 10 => returned = <<>>
               /\ returned # <<>> =>
                    /\ returned[1].direction \in {"LONG", "SHORT"}
                    /\ returned[1].direction = "LONG" => buy > sell
                    /\ returned[1].direction = "SHORT" => sell > buy

\* generate_signal was given market data with a price and readings whose score
\* is at least MIN_SIGNAL_SCORE, but the BUY sum exceeds the SELL sum by less than
\* 1.0: no signal.
C18_Witness ==
    /\ op.name = "generate_signal"
    /\ returned = <<>>
    /\ op.market_data # <<>>
    /\ "1" \in DOMAIN op.market_data[1]
    /\ \A s \in op.symbols :
          LET r == GivenReadings(indicator_results, s)
              d == StrengthSum(r, "BUY") - StrengthSum(r, "SELL")
          IN /\ r # <<>>
             /\ ScoreOf(r, BonusOf(op), 10) >= MIN_SIGNAL_SCORE
             /\ 0 < d /\ d < 10

\* C19 (as claimed): the score of a signal returned for a symbol other than
\* BTCUSDT is the integer part of (base score + pattern bonus) multiplied by the
\* regime multiplier of the stored BTCUSDT 15 minute readings, limited to 100.
C19_AltcoinScoreUsesRegime ==
    (op.name = "generate_signal" /\ returned # <<>>) =>
        \A s \in op.symbols \ {"BTCUSDT"} :
            returned[1].score
                = ScoreOf(GivenReadings(indicator_results, s), BonusOf(op),
                          RegimeMultiplier(indicator_results))

Logged(entries, phase, s) == \E i \in 1..Len(entries) : entries[i] = <<phase, s>>

\* C12 (as claimed): failure isolation is per symbol; in every cycle, a symbol
\* whose own candle requests did not fail is refreshed in that cycle, whichever
\* other symbol's processing failed.
C12_FailureIsolatedPerSymbol ==
    op.name = "main_loop" =>
        \A s \in Symbols :
            (\A t \in DOMAIN op.fetch[s] : ~op.fetch[s][t].raises)
                => Logged(op.log, "refresh", s)

PhaseRank(phase) ==
    CASE phase = "refresh" -> 1
      [] phase = "indicators" -> 2
      [] phase = "scoring" -> 3
      [] OTHER -> 4

\* C22 (as claimed): every cycle runs the four phases in the order data
\* refresh, indicator aggregation, scoring, position management, and reaches the
\* position management phase before it ends.
C22_FourPhasesToCompletion ==
    op.name = "main_loop" =>
        /\ \A i, j \in 1..Len(op.log) :
              i < j => PhaseRank(op.log[i][1]) <= PhaseRank(op.log[j][1])
        /\ \A s \in Symbols : Logged(op.log, "refresh", s)
        /\ \A s \in Symbols : Logged(op.log, "indicators", s)
        /\ Logged(op.log, "positions", "")

\* The trailing state of symbol s, or none.
TrailingOf(stops, s) == IF s \in DOMAIN stops THEN <<stops[s]>> ELSE <<>>

\* Enabling s has created an inactive trailing state from the entry price of its
\* monitored position, and no other symbol's trailing state has changed.
EnabledInactive(s) ==
    LET position == monitored_positions[s] IN
    /\ s \in DOMAIN trailing_stops'
    /\ ~trailing_stops'[s].activated
    /\ position.side = "Buy" =>
          /\ trailing_stops'[s].activation_price
                = position.entry_price * (1000 + TRAILING_STOP_ACTIVATION)
          /\ trailing_stops'[s].current_stop
                = position.entry_price * (1000 - TRAILING_STOP_DISTANCE)
    /\ position.side = "Sell" =>
          /\ trailing_stops'[s].activation_price
                = position.entry_price * (1000 - TRAILING_STOP_ACTIVATION)
          /\ trailing_stops'[s].current_stop
                = position.entry_price * (1000 + TRAILING_STOP_DISTANCE)
    /\ State(auto_management_settings', trailing_stops', s) = "MANAGED_INACTIVE"
    /\ \A o \in Symbols \ {s} : TrailingOf(trailing_stops', o) = TrailingOf(trailing_stops, o)

\* C30 (as claimed): enabling auto-management for a symbol that has a monitored
\* position creates an inactive trailing state with the activation price and the
\* initial stop computed from the entry price for the position's side, and leaves
\* the trailing state of the other symbols unchanged.
C30_EnableCreatesTrailing ==
    [][\A s \in Symbols :
         (op'.name = "enable" /\ s \in op'.symbols /\ s \in DOMAIN monitored_positions)
            => EnabledInactive(s)]_vars

\* C30 (amended): the same when the trailing_stop setting given to
\* enable_auto_management is on; when it is off, no trailing state is created or
\* changed, for any symbol.
C30_EnableCreatesTrailingIfSet ==
    [][\A s \in Symbols :
         (op'.name = "enable" /\ s \in op'.symbols /\ s \in DOMAIN monitored_positions)
            => IF auto_management_settings'[s].trailing_stop
               THEN EnabledInactive(s)
               ELSE trailing_stops' = trailing_stops]_vars

\* A short symbol whose last observed price is past the activation price was
\* enabled with the trailing stop on: its trailing state is new and inactive.
C30_Witness ==
    \E s \in Symbols :
        /\ op.name = "enable" /\ s \in op.symbols
        /\ s \in DOMAIN monitored_positions
        /\ monitored_positions[s].side = "Sell"
        /\ auto_management_settings[s].trailing_stop
        /\ s \in DOMAIN trailing_stops
        /\ ~trailing_stops[s].activated
        /\ trailing_stops[s].current_stop
              = monitored_positions[s].entry_price * (1000 + TRAILING_STOP_DISTANCE)
        /\ monitored_positions[s].current_price * 1000 <= trailing_stops[s].activation_price

\* The signals handed over for symbol s among the events evs.
SignalsFor(evs, s) == {i \in 1..Len(evs) : evs[i].kind = "signal" /\ evs[i].symbol = s}

\* generate_signal offers a signal for s that passes the minimum score.
Offered(scorer, s) == scorer[s] # <<>> /\ scorer[s][1].score >= MIN_SIGNAL_SCORE

\* A signal for s was handed over less than MIN_SIGNAL_INTERVAL minutes ago.
WithinInterval(s) ==
    /\ <<"signal", s>> \in DOMAIN sent_at
    /\ now - sent_at[<<"signal", s>>] < MIN_SIGNAL_INTERVAL

\* C21: a scoring phase hands over at most one signal per symbol; a signal for a
\* symbol is handed over no less than MIN_SIGNAL_INTERVAL minutes after the last
\* one for the same symbol; and a symbol that is offered a signal outside its own
\* interval gets it, whatever the other symbols' intervals.
C21_RefireInterval ==
    [][op'.name = "scoring_phase" =>
         \A s \in Symbols :
            /\ Cardinality(SignalsFor(events', s)) <= 1
            /\ SignalsFor(events', s) # {} => ~WithinInterval(s)
            /\ (Offered(op'.scorer, s) /\ ~WithinInterval(s))
                  => SignalsFor(events', s) # {}]_vars

\* A scoring phase in which BTCUSDT, offered a signal inside its interval, gets
\* none, while ETHUSDT gets its first signal.
C21_Witness ==
    /\ op.name = "scoring_phase"
    /\ Offered(op.scorer, "BTCUSDT") /\ SignalsFor(events, "BTCUSDT") = {}
    /\ \E i \in SignalsFor(events, "ETHUSDT") : events[i].gap = NoGap

\* A scoring phase in which a symbol gets a signal exactly MIN_SIGNAL_INTERVAL
\* minutes after the last one.
C21_WitnessAtInterval ==
    /\ op.name = "scoring_phase"
    /\ \E s \in Symbols :
          \E i \in SignalsFor(events, s) : events[i].gap = MIN_SIGNAL_INTERVAL

\* C23 (as claimed): in a scoring phase where a symbol is outside its interval
\* and its stored readings give a final score of at least MIN_SIGNAL_SCORE and
\* settle a direction, a signal for the symbol is handed over.
C23_SignalEmitted ==
    op.name = "scoring_phase" =>
        \A s \in Symbols :
            LET r == GivenReadings(indicator_results, s) IN
            (r # <<>> /\ Settled(r) /\ ScoreOf(r, 0, 10) >= MIN_SIGNAL_SCORE
                /\ s \notin DOMAIN last_signal_time)
                => SignalsFor(events, s) # {}

LibraryNames == {"RSI", "MACD", "BB", "VOLUME", "SMA"}

\* C24: every reading an indicator of the library returns, on a frame with
\* enough rows or not, has a strength between 0 and 1 and one of the signals BUY,
\* SELL, NEUTRAL.
C24_ReadingInRange ==
    op.name \in LibraryNames =>
        /\ returned # <<>>
        /\ returned[1].signal \in {"BUY", "SELL", "NEUTRAL"}
        /\ returned[1].strength.den > 0
        /\ 0 <= returned[1].strength.num
        /\ returned[1].strength.num <= returned[1].strength.den

\* The volume indicator met a volume of more than three times the average with a
\* rising price: the strength is limited to 1.
C24_Witness ==
    /\ op.name = "VOLUME"
    /\ op.rows >= 20
    /\ 20 * op.value[1] > 3 * op.value[2]
    /\ returned[1].signal = "BUY"
    /\ returned[1].strength.num = returned[1].strength.den

\* C25 (as claimed): on a frame with enough rows, an oscillator value below 30
\* gives BUY with strength min(1, (30 - value) / 10), a value above 70 gives SELL
\* with strength min(1, (value - 70) / 10), and every other value, 30 and 70
\* included, gives NEUTRAL with strength 0.1.
C25_OscillatorRule ==
    (op.name = "RSI" /\ op.rows >= op.period /\ op.value # NaN) =>
        LET v == op.value[1]
            reading == returned[1]
        IN /\ v < 300 =>
                /\ reading.signal = "BUY"
                /\ reading.strength.num * 100 = Min(100, 300 - v) * reading.strength.den
           /\ v > 700 =>
                /\ reading.signal = "SELL"
                /\ reading.strength.num * 100 = Min(100, v - 700) * reading.strength.den
           /\ (v >= 300 /\ v <= 700) =>
                /\ reading.signal = "NEUTRAL"
                /\ reading.strength.num * 10 = reading.strength.den

\* generate_signal has returned a signal.
Produced == op.name = "generate_signal" /\ returned # <<>>

\* The volatility proxy of the market data generate_signal was given, in
\* per-mille: the ATR ratio of a 15 minute frame of 14 rows, 2% otherwise.
VolatilityOf(o) ==
    IF Len(o.market_data[1]["15"]) >= 14 THEN o.atr_ratio ELSE 20

\* The distance of the stop from the entry price as a fraction of the entry price.
StopDistanceOf(signal) ==
    Reduce(Abs(signal.entry_price * 10000 - signal.stop_loss), signal.entry_price * 10000)

FracEq(x, y) == x.num * y.den = y.num * x.den

\* C26: the recommended size of a produced signal is the smaller of capital *
\* MAX_POSITION_RATIO * score / 100 and 2% of the capital over the stop distance
\* fraction; it is at most capital * MAX_POSITION_RATIO, and the loss at the stop
\* is at most 2% of the capital.
C26_PositionSize ==
    Produced =>
        LET signal == returned[1]
            d == StopDistanceOf(signal)
            by_score == Reduce(TOTAL_CAPITAL * MAX_POSITION_RATIO * signal.score, 10000)
            by_stop == Reduce(2 * TOTAL_CAPITAL * d.den, 100 * d.num)
            size == signal.recommended_size
        IN /\ FracEq(size, IF FracLe(by_score, by_stop) THEN by_score ELSE by_stop)
           /\ FracLe(size, Frac(TOTAL_CAPITAL * MAX_POSITION_RATIO, 100))
           /\ FracLe(Frac(size.num * d.num, size.den * d.den), Frac(2 * TOTAL_CAPITAL, 100))

\* A signal of score 100 with the stop 8% away: the size is the whole capital *
\* MAX_POSITION_RATIO.
C26_Witness ==
    /\ Produced
    /\ returned[1].score = 100
    /\ FracEq(StopDistanceOf(returned[1]), Frac(8, 100))
    /\ FracEq(returned[1].recommended_size, Frac(TOTAL_CAPITAL * MAX_POSITION_RATIO, 100))

\* C27 (as claimed): the leverage of a produced signal lies between MIN_LEVERAGE
\* and MAX_LEVERAGE and, the volatility factor being at most 1, is not above base
\* leverage * score / 100.
C27_LeveragePenalty ==
    Produced =>
        /\ returned[1].leverage >= MIN_LEVERAGE
        /\ returned[1].leverage <= MAX_LEVERAGE
        /\ returned[1].leverage * 100 <= DEFAULT_LEVERAGE * returned[1].score

\* C28 (as claimed): the entry zones of a produced signal are the configured
\* split entries in order, their ratios sum to 1.0, and every zone price is below
\* the entry price for LONG and above it for SHORT, each further away than the
\* zone before.
C28_EntryZones ==
    Produced =>
        LET signal == returned[1]
            zones == signal.entry_zones
            further(a, b) == IF signal.direction = "LONG" THEN a < b ELSE a > b
        IN /\ Len(zones) = Len(SPLIT_ENTRY_RATIOS)
           /\ \A i \in 1..Len(zones) :
                 /\ zones[i].order = i
                 /\ zones[i].ratio = SPLIT_ENTRY_RATIOS[i]
                 /\ further(zones[i].price, signal.entry_price)
                 /\ i > 1 => further(zones[i].price, zones[i - 1].price)
           /\ SumOf([i \in 1..Len(zones) |-> zones[i].ratio], 1..Len(zones)) = 10

\* C29: for a produced signal with a positive volatility proxy, the stop is on
\* the adverse side of the entry price at the distance 2.5 * volatility limited
\* to 2%..8%, and the two targets are on the favourable side, the nearer first.
C29_StopAndTargets ==
    (Produced /\ VolatilityOf(op) > 0) =>
        LET signal == returned[1]
            entry == signal.entry_price * 10000
            v == VolatilityOf(op)
            distance == IF 25 * v < 200 THEN 200 ELSE IF 25 * v > 800 THEN 800 ELSE 25 * v
        IN /\ Abs(entry - signal.stop_loss) = signal.entry_price * distance
           /\ signal.direction = "LONG" =>
                 /\ signal.stop_loss < entry
                 /\ entry < signal.take_profits[1]
                 /\ signal.take_profits[1] < signal.take_profits[2]
           /\ signal.direction = "SHORT" =>
                 /\ signal.take_profits[2] < signal.take_profits[1]
                 /\ signal.take_profits[1] < entry
                 /\ entry < signal.stop_loss

\* A short signal on a volatility of 0.5%: the stop is 2% above the entry price
\* and the targets 1% and 2% below it.
C29_Witness ==
    /\ Produced
    /\ VolatilityOf(op) = 5
    /\ returned[1].direction = "SHORT"
    /\ returned[1].stop_loss = returned[1].entry_price * 10200
    /\ returned[1].take_profits = <<returned[1].entry_price * 9900,
                                    returned[1].entry_price * 9800>>

\* How the trailing stop of symbol s stands: switched off, or on without a state,
\* with an inactive state, or with an active one.
TrailingStanding(settings, stops, s) ==
    IF ~settings[s].trailing_stop THEN "off"
    ELSE IF s \notin DOMAIN stops THEN "none"
    ELSE IF stops[s].activated THEN "active" ELSE "inactive"

\* The percentages suggested for symbol s among the events evs.
Suggested(evs, s) ==
    {evs[i].detail : i \in {j \in 1..Len(evs) :
                                evs[j].kind = "partial_profit" /\ evs[j].symbol = s}}

\* The percentages due for the position: those whose threshold the price has
\* reached and whose own key is not in its cooldown.
Due(position, alerts, t) ==
    LET s == position.symbol
        beyond(target) ==
            IF position.side = "Buy"
            THEN position.current_price * 1000 >= position.entry_price * (1000 + target)
            ELSE position.current_price * 1000 <= position.entry_price * (1000 - target)
        cooling(pct) == <<s, pct>> \in DOMAIN alerts /\ t - alerts[<<s, pct>>] < PROFIT_ALERT_COOLDOWN
    IN {pct \in {50} : beyond(DEFAULT_TAKE_PROFIT_1) /\ ~cooling(50)}
         \cup {pct \in {100} : beyond(DEFAULT_TAKE_PROFIT_2) /\ ~cooling(100)}

\* C31: in every management pass with partial_profits on (the delivery of
\* notifications not raising), whatever the trailing stop's standing before and
\* after the pass (off, no state, inactive, active), the percentages suggested
\* in the pass are exactly those whose threshold the price has reached and whose
\* own key is out of its cooldown: 50 from the first threshold on, 50 and 100 from
\* the second on, nothing inside both.
C31_PartialProfitsIndependent ==
    [][\A s \in Symbols :
         (/\ ManagedPass(s)
          /\ auto_management_settings[s].partial_profits
          /\ s \notin op'.failing)
         => \A standing \in {"off", "none", "inactive", "active"} :
               TrailingStanding(auto_management_settings, trailing_stops, s) = standing
               => Suggested(events', s)
                     = Due(monitored_positions'[s], last_profit_alerts, now')]_vars

\* One pass over BTCUSDT at the second threshold suggested both closes while its
\* trailing state was active before the pass, and ETHUSDT, trailing off, got its
\* 50% suggestion in the same cycle.
C31_Witness ==
    /\ op.name = "manage"
    /\ op.symbols = Symbols
    /\ Suggested(events, "BTCUSDT") = {50, 100}
    /\ TrailingStanding(auto_management_settings, trailing_stops, "BTCUSDT") = "active"
    /\ ~HasEvent(events, "warning", "BTCUSDT", "trailing_activated")
    /\ is_auto_managed(auto_management_settings, "ETHUSDT")
    /\ TrailingStanding(auto_management_settings, trailing_stops, "ETHUSDT") = "off"
    /\ Suggested(events, "ETHUSDT") = {50}

\* A pass over BTCUSDT at the second threshold suggested both closes in the pass
\* that only created its trailing state.
C31_WitnessInactive ==
    /\ op.name = "manage"
    /\ Suggested(events, "BTCUSDT") = {50, 100}
    /\ TrailingStanding(auto_management_settings, trailing_stops, "BTCUSDT") = "inactive"

\* C32: the price history of a symbol never holds more than 5 samples; a
\* management pass that runs the risk check on the symbol appends the observed
\* price as the last sample, behind the most recent earlier samples in their
\* order (the oldest is dropped once there are 5), and every other step leaves
\* the symbol's history as it is.
C32_PriceHistoryWindow ==
    [][\A s \in Symbols :
         LET old == IF s \in DOMAIN price_history THEN price_history[s] ELSE <<>>
             new == IF s \in DOMAIN price_history' THEN price_history'[s] ELSE <<>>
             kept == Len(new) - 1
         IN /\ Len(new) <= 5
            /\ IF ManagedPass(s) /\ auto_management_settings[s].risk_management
               THEN /\ Len(new) = IF Len(old) < 5 THEN Len(old) + 1 ELSE 5
                    /\ new[Len(new)] = monitored_positions'[s].current_price
                    /\ \A i \in 1..kept : new[i] = old[Len(old) - kept + i]
               ELSE new = old]_vars

\* A pass over BTCUSDT on a rapid move left its history full, the observed price
\* last, while the history of ETHUSDT, observed less often, is still shorter.
C32_Witness ==
    /\ op.name = "manage"
    /\ "BTCUSDT" \in op.symbols
    /\ "BTCUSDT" \in DOMAIN price_history
    /\ Len(price_history["BTCUSDT"]) = PRICE_HISTORY_LEN
    /\ price_history["BTCUSDT"][PRICE_HISTORY_LEN]
            = monitored_positions["BTCUSDT"].current_price
    /\ HasEvent(events, "risk_alert", "BTCUSDT", "rapid_change")
    /\ "ETHUSDT" \in DOMAIN price_history
    /\ Len(price_history["ETHUSDT"]) < PRICE_HISTORY_LEN

\* C33 (as claimed): while a trailing state is activated, and it was initialised
\* for the side the position has, the stop is within the trailing distance of the
\* favourable extreme: for a long current_stop >= highest_price * (1 - distance),
\* for a short current_stop <= lowest_price * (1 + distance).
C33_StopTracksExtreme ==
    \A s \in DOMAIN trailing_stops :
        LET trailing == trailing_stops[s]
            position == monitored_positions[s]
        IN (trailing.activated /\ s \in DOMAIN monitored_positions) =>
              /\ (/\ position.side = "Buy"
                  /\ trailing.activation_price
                        = position.entry_price * (1000 + TRAILING_STOP_ACTIVATION))
                 => trailing.current_stop
                        >= trailing.highest_price * (1000 - TRAILING_STOP_DISTANCE)
              /\ (/\ position.side = "Sell"
                  /\ trailing.activation_price
                        = position.entry_price * (1000 - TRAILING_STOP_ACTIVATION))
                 => trailing.current_stop
                        <= trailing.lowest_price * (1000 + TRAILING_STOP_DISTANCE)

\* C34: a management pass with trailing on for a symbol that has no trailing
\* state creates the state, not activated, with the entry-based initial stop and
\* the observed price as both extremes, and hands over neither the activation
\* warning nor a stop adoption, whatever the observed price.
C34_FirstPassOnlyCreates ==
    [][\A s \in Symbols :
         (/\ ManagedPass(s)
          /\ auto_management_settings[s].trailing_stop
          /\ s \notin DOMAIN trailing_stops)
         => LET position == monitored_positions'[s]
                initial_stop == IF position.side = "Buy"
                                THEN position.entry_price * (1000 - TRAILING_STOP_DISTANCE)
                                ELSE position.entry_price * (1000 + TRAILING_STOP_DISTANCE)
            IN /\ s \in DOMAIN trailing_stops'
               /\ ~trailing_stops'[s].activated
               /\ trailing_stops'[s].current_stop = initial_stop
               /\ trailing_stops'[s].highest_price = position.current_price
               /\ trailing_stops'[s].lowest_price = position.current_price
               /\ ~HasEvent(events', "warning", s, "trailing_activated")
               /\ ~HasEvent(events', "position_update", s, "trailing")]_vars

\* After a pass over the managed long BTCUSDT at 105, beyond its activation price
\* of 102, its trailing state is not activated: the pass created it.
C34_Witness ==
    /\ op.name = "manage"
    /\ "BTCUSDT" \in op.symbols
    /\ is_auto_managed(auto_management_settings, "BTCUSDT")
    /\ monitored_positions["BTCUSDT"].side = "Buy"
    /\ monitored_positions["BTCUSDT"].current_price = 105
    /\ "BTCUSDT" \in DOMAIN trailing_stops
    /\ ~trailing_stops["BTCUSDT"].activated
    /\ trailing_stops["BTCUSDT"].activation_price = 102000
    /\ trailing_stops["BTCUSDT"].current_stop = 98500

\* C35 (as claimed): a signal generate_signal returns is LONG only if the
\* weighted BUY total of the readings is at least their weighted SELL total (the
\* base score is then the BUY total), and SHORT only if the SELL total is at
\* least the BUY total.
C35_DirectionAgreesWithScore ==
    (op.name = "generate_signal" /\ returned # <<>>) =>
        LET buy == Weighted(op.indicators, "BUY")
            sell == Weighted(op.indicators, "SELL")
        IN /\ returned[1].direction = "LONG" => buy >= sell
           /\ returned[1].direction = "SHORT" => sell >= buy

\* The pass run await by await with nothing running in between.
RECURSIVE RunThrough(_, _)
RunThrough(st, f) ==
    LET r == RunPass(st, [f EXCEPT !.awaiting = FALSE])
    IN IF r.f.awaiting THEN RunThrough(r.st, r.f) ELSE r.st

\* Run without interruption, the pass await by await is the pass as one step: a
\* cycle over one managed symbol leaves the state RunThrough computes.
StepwiseAgrees ==
    [][\A s \in Symbols :
         (ManagedPass(s) /\ op'.symbols = {s} /\ op'.failing = {}) =>
            LET position == monitored_positions'[s]
                st == RunThrough(get_current_positions(Cur, [x \in {s} |-> position]),
                                 Frame(position))
            IN /\ trailing_stops' = st.trailing_stops
               /\ last_profit_alerts' = st.last_profit_alerts
               /\ price_history' = st.price_history
               /\ last_updates' = st.last_updates
               /\ events' = st.events
               /\ sent_at' = st.sent_at]_vars

\* C36: once disable_auto_management has run for a symbol while its management
\* pass was suspended at an awaited notification (and no enable command has run
\* since), no trailing state exists for the symbol while the rest of the pass runs
\* nor when it completes; and a cycle over a symbol that is not auto-managed
\* performs no management: no notification, no pass, the trailing states as
\* they were.
C36_DisableDuringPass ==
    [][\A s \in Symbols :
         /\ (\/ /\ in_flight' # <<>>
                /\ in_flight'[1].position.symbol = s
                /\ in_flight'[1].disabled
             \/ /\ op'.name = "resume"
                /\ s \in op'.symbols
                /\ op'.disabled)
            => s \notin DOMAIN trailing_stops'
         /\ (/\ op'.name = "pass"
             /\ s \in op'.symbols
             /\ ~is_auto_managed(auto_management_settings, s))
            => /\ events' = <<>>
               /\ in_flight' = <<>>
               /\ trailing_stops' = trailing_stops
               /\ last_profit_alerts' = last_profit_alerts
               /\ last_updates' = last_updates]_vars

\* The pass over BTCUSDT was suspended at its activation warning, the symbol was
\* disabled, and the resumed pass adopted the stop of the new high on the dict it
\* still holds, which trailing_stops no longer stores.
C36_Witness ==
    /\ op.name = "resume"
    /\ op.disabled
    /\ HasEvent(events, "position_update", "BTCUSDT", "trailing")
    /\ in_flight # <<>>
    /\ in_flight[1].trailing[1].activated
    /\ in_flight[1].trailing[1].current_stop = 105 * (1000 - TRAILING_STOP_DISTANCE)
    /\ "BTCUSDT" \notin DOMAIN trailing_stops
    /\ ~is_auto_managed(auto_management_settings, "BTCUSDT")

\* The pass disabled while suspended has completed, and the next cycle over the
\* symbol has done nothing.
C36_WitnessNextCycle ==
    /\ op.name = "pass"
    /\ "BTCUSDT" \in DOMAIN auto_management_settings
    /\ ~is_auto_managed(auto_management_settings, "BTCUSDT")
    /\ <<"trailing_update", "BTCUSDT">> \in DOMAIN sent_at
    /\ "BTCUSDT" \notin DOMAIN trailing_stops
    /\ events = <<>>

\* C37 (as claimed): at every instant, the calls of wait() that returned within
\* the 60 seconds up to that instant are at most max_requests.
C37_RateLimitEnforced ==
    Len(Within(let_through, now, RATE_WINDOW)) <= MaxRequests

\* C38: after every update_symbol_data call each candle series the call stored
\* has strictly increasing timestamps (hence no timestamp twice), holds at most
\* the configured number of candles, holds exactly the most recent timestamps
\* of the cached and the fetched candles together, and holds for each of them
\* the fetched candle when the response has one and the cached candle otherwise.
Stamps(rows) == {rows[i].timestamp : i \in 1..Len(rows)}

Merged(symbol, timeframe) ==
    LET new == op'.fetch[timeframe].kline
        old == IF symbol \in DOMAIN symbol_data /\ timeframe \in DOMAIN symbol_data[symbol]
               THEN symbol_data[symbol][timeframe] ELSE <<>>
        res == symbol_data'[symbol][timeframe]
        all == Stamps(old) \cup Stamps(new)
    IN /\ \A i \in 1..Len(res), j \in 1..Len(res) :
            i < j => res[i].timestamp < res[j].timestamp
       /\ Len(res) <= CacheLimit
       /\ Stamps(res) \subseteq all
       /\ \A u \in all \ Stamps(res) : Cardinality({v \in all : v > u}) >= CacheLimit
       /\ \A i \in 1..Len(res) :
            IF res[i].timestamp \in Stamps(new)
            THEN \E j \in 1..Len(new) : new[j] = res[i]
            ELSE \E j \in 1..Len(old) : old[j] = res[i]

C38_CachedSeries ==
    [][op'.name = "update_symbol_data" =>
        \A symbol \in op'.symbols : \A i \in 1..Len(Timeframes) :
            (\A j \in 1..i : ~op'.fetch[Timeframes[j]].raises)
                => Merged(symbol, Timeframes[i])]_vars

\* An update replaced the cached candle of a timestamp by the fetched one and
\* pushed the oldest candle out of a full series.
C38_Witness ==
    /\ op.name = "update_symbol_data"
    /\ ~op.fetch["1"].raises
    /\ "1" \in DOMAIN op.cached
    /\ LET old == op.cached["1"]
           new == op.fetch["1"].kline
           res == symbol_data["BTCUSDT"]["1"]
       IN /\ Len(old) = CacheLimit
          /\ Stamps(new) \cap Stamps(old) # {}
          /\ Stamps(new) \ Stamps(old) # {}
          /\ \E i \in 1..Len(old), j \in 1..Len(new) :
                /\ old[i].timestamp = new[j].timestamp
                /\ old[i].close # new[j].close
                /\ \E k \in 1..Len(res) : res[k] = new[j]
          /\ old[1].timestamp \notin Stamps(res)
          /\ Len(res) = CacheLimit

====
